---- MODULE Spec2Model ----
(***************************************************************************)
(* Model of the health pipeline of backend/health_ai_engine.py             *)
(* (HealthAIEngine) and of the decision layer of backend/health_coach.py   *)
(* (HealthCoachEngine).                                                    *)
(*                                                                         *)
(* Numbers.  Python floats are modelled in fixed point:                    *)
(*   RR intervals, sdnn, rmssd     whole milliseconds                      *)
(*   acceleration                  tenths of m/s^2                         *)
(*   fatigue                       millionths inside _predict_fatigue,     *)
(*                                 thousandths in the record (round(.,3))  *)
(*   hr_percent, pnn50, lf_hf      hundredths                              *)
(*   vo2_max                       hundredths in the baseline, tenths in   *)
(*                                 the record (round(.,1))                 *)
(*   calories                      hundredths of kcal/min (round(.,2))     *)
(* A float that can be infinite or NaN (the numpy path divides by a zero   *)
(* heart rate) is a record [k |-> "num" | "inf" | "nan", v |-> Int].       *)
(* Optional values are None or Some(v).                                    *)
(***************************************************************************)
EXTENDS Integers, Sequences, FiniteSets, TLC

VARIABLES
    \* build: which optional libraries were importable (module constants)
    NUMPY_AVAILABLE, SCIPY_AVAILABLE, SKLEARN_AVAILABLE,
    \* the HealthAIEngine object (its fields)
    engine,
    \* what the last process_realtime call returned (a record or a raise)
    result,
    \* history of every sample passed to process_realtime, oldest first
    pushed,
    \* the reading the sensor is currently repeating
    regime,
    \* the LF/HF ratio the spectral estimate yielded in the last call
    welch,
    \* a second HealthAIEngine built with the same arguments, and what its
    \* last process_realtime call returned
    twin, twin_result,
    \* the scripted sample sequence the sensor plays, if any
    scenario,
    \* HealthCoachEngine: wall clock in half seconds, user_baselines,
    \* recent_decisions, the batch returned by the last make_decisions call,
    \* and the user and input of that call
    clock, user_baselines, recent_decisions, returned, last_call,
    \* the number of make_decisions calls so far
    calls,
    \* time has passed since the last call returned
    waited,
    \* execute_decisions on the batch returned last: what reached a channel,
    \* in order, and how the call ended
    dispatched, exec_result,
    \* the /ws/health connections (user, stage of the handler, message being
    \* handled) and the connection whose handler the event loop is running
    sockets, loop,
    \* main.py: _hits of rate_limit ((ip, bucket) -> timestamps, oldest
    \* first), the /users requests that are inside rate_limit on a worker
    \* thread, and how many rate_limit calls have ended, by key, time and
    \* status
    _hits, workers, served,
    \* the number of times the clock was advanced between requests
    waits,
    \* main.py: _inflight (key -> expiry time) and the requests that called
    \* inflight_acquire: their key, when they called, and how far they are
    _inflight, requests,
    \* main.py: _api_cooldown (model -> end of its cooldown), the calls of
    \* gemini_generate_with_backoff (their candidate models, position in the
    \* loops, the invocations made and how the call ended), and when each
    \* model last failed with a rate-limit error
    _api_cooldown, generations, limited,
    \* main.py: ws_manager.active_connections (user_id -> connection)
    active_connections

engineVars == <<NUMPY_AVAILABLE, SCIPY_AVAILABLE, SKLEARN_AVAILABLE, engine,
                result, pushed, regime, welch, twin, twin_result, scenario>>
coachVars == <<clock, user_baselines, recent_decisions, returned, last_call,
               calls, waited, dispatched, exec_result, sockets, loop>>
helperVars == <<_hits, workers, served, waits, _inflight, requests,
                _api_cooldown, generations, limited>>
mainVars == <<helperVars,
                   _api_cooldown, generations, limited, active_connections>>
vars == <<engineVars, coachVars, mainVars>>

-----------------------------------------------------------------------------
(* Values *)

None == [kind |-> "None"]
Some(x) == [kind |-> "Some", v |-> x]
IsNone(x) == x.kind = "None"

FNum(x) == [k |-> "num", v |-> x]
FInf == [k |-> "inf", v |-> 0]
FNaN == [k |-> "nan", v |-> 0]
\* IEEE comparisons of a float with a finite constant: false on NaN
FLt(x, c) == x.k = "num" /\ x.v < c
FGt(x, c) == x.k = "inf" \/ (x.k = "num" /\ x.v > c)

Abs(x) == IF x < 0 THEN -x ELSE x
Max2(a, b) == IF a > b THEN a ELSE b
Min2(a, b) == IF a < b THEN a ELSE b
\* quotient rounded toward zero, b # 0
TruncDiv(a, b) == IF (a >= 0) = (b > 0) THEN Abs(a) \div Abs(b) ELSE -(Abs(a) \div Abs(b))
\* a / b < c and a / b > c for integers, b # 0, without rounding
RatLt(a, b, c) == IF b > 0 THEN a < c * b ELSE a > c * b

RECURSIVE ISqrtBin(_, _, _)
\* floor of the square root of x, lo*lo <= x < hi*hi
ISqrtBin(x, lo, hi) ==
    IF hi - lo <= 1 THEN lo
    ELSE LET mid == (lo + hi) \div 2
         IN IF mid * mid <= x THEN ISqrtBin(x, mid, hi) ELSE ISqrtBin(x, lo, mid)
ISqrt(x) == ISqrtBin(x, 0, 46340)

RaiseZeroDivision == [kind |-> "raise", exc |-> "ZeroDivisionError"]
IsRaise(x) == x.kind = "raise"

-----------------------------------------------------------------------------
(* HealthAIEngine *)

hr_buffer_size == 300
step_buffer_size == 60
accel_buffer_size == 60
default_resting_hr == 70

\* HealthAIEngine.__init__
NewEngine(user_age, weight) ==
    [ user_age       |-> user_age,
      user_weight    |-> weight,
      max_hr         |-> 220 - user_age,
      hr_buffer      |-> <<>>,
      step_buffer    |-> <<>>,
      accel_buffer   |-> <<>>,
      anomaly_trained |-> FALSE,
      training_data  |-> <<>>,
      baseline       |-> [ resting_hr |-> default_resting_hr,
                           max_hr     |-> 220 - user_age,
                           vo2_max    |-> None ] ]

\* the eviction drops the newest entry instead of the oldest: pop() for pop(0)
AppendEvictNewest(buf, x, cap) ==
    LET b == Append(buf, x)
    IN IF Len(b) > cap THEN SubSeq(b, 1, Len(b) - 1) ELSE b

\* list.append followed by pop(0) when the list is longer than cap
AppendEvict(buf, x, cap) ==
    LET b == Append(buf, x)
    IN IF Len(b) > cap THEN Tail(b) ELSE b

_update_buffers(self, hr, steps, accel) ==
    [self EXCEPT !.hr_buffer = AppendEvict(@, hr, hr_buffer_size),
                 !.step_buffer = AppendEvict(@, steps, step_buffer_size),
                 !.accel_buffer = AppendEvict(@, accel, accel_buffer_size)]

\* the steps of the last tick: newest minus the entry before it
StepRatePerTick(step_buffer) ==
    IF Len(step_buffer) >= 2
    THEN step_buffer[Len(step_buffer)] - step_buffer[Len(step_buffer) - 1]
    ELSE 0

\* lines 253-256: step_buffer[-1] - step_buffer[0], 0 with fewer than 2 entries
StepRate(step_buffer) ==
    IF Len(step_buffer) >= 2 THEN step_buffer[Len(step_buffer)] - step_buffer[1] ELSE 0

\* the last rule reads hr > 150
_classify_activity_above_150(self, hr, steps, ax, ay, az) ==
    LET mag2 == ax * ax + ay * ay + az * az
        step_rate == StepRate(self.step_buffer)
    IN IF mag2 < 15 * 15 /\ step_rate = 0 /\ hr < 60 THEN "sleeping"
       ELSE IF mag2 < 20 * 20 /\ step_rate < 5 THEN "resting"
       ELSE IF step_rate < 60 /\ hr < 100 THEN "walking"
       ELSE IF hr < 120 THEN "light_exercise"
       ELSE IF hr < 150 THEN "moderate_exercise"
       ELSE IF hr > 150 THEN "intense_exercise"
       ELSE "unknown"

\* accel in tenths: magnitude < 1.5 iff squared magnitude < 15*15
_classify_activity(self, hr, steps, ax, ay, az) ==
    LET mag2 == ax * ax + ay * ay + az * az
        step_rate == StepRate(self.step_buffer)
    IN IF mag2 < 15 * 15 /\ step_rate = 0 /\ hr < 60 THEN "sleeping"
       ELSE IF mag2 < 20 * 20 /\ step_rate < 5 THEN "resting"
       ELSE IF step_rate < 60 /\ hr < 100 THEN "walking"
       ELSE IF hr < 120 THEN "light_exercise"
       ELSE IF hr < 150 THEN "moderate_exercise"
       ELSE IF hr >= 150 THEN "intense_exercise"
       ELSE "unknown"

\* the clamp is missing
ClampStressMissing(stress) == stress

\* line 366: max(0, min(100, stress))
ClampStress(stress) == Max2(0, Min2(100, stress))

_calculate_stress_index(sdnn, rmssd, lf_hf) ==
    LET s1 == IF FLt(sdnn, 30) THEN 25
              ELSE IF FLt(sdnn, 50) THEN 15
              ELSE IF FGt(sdnn, 100) THEN -15
              ELSE IF FGt(sdnn, 70) THEN -10
              ELSE 0
        s2 == IF FLt(rmssd, 20) THEN 20
              ELSE IF FLt(rmssd, 30) THEN 10
              ELSE IF FGt(rmssd, 60) THEN -10
              ELSE 0
        s3 == IF IsNone(lf_hf) THEN 0
              ELSE IF lf_hf.v > 300 THEN 15
              ELSE IF lf_hf.v > 200 THEN 10
              ELSE IF lf_hf.v < 100 THEN -5
              ELSE 0
        stress == 50 + s1 + s2 + s3
    IN ClampStress(stress)

HRV_MIN_SAMPLES == 60

\* the test is <= instead of <
TooFewSamplesOffByOne(hr_buffer) == Len(hr_buffer) <= HRV_MIN_SAMPLES

\* line 275: len(self.hr_buffer) < 60
TooFewSamples(hr_buffer) == Len(hr_buffer) < HRV_MIN_SAMPLES

\* RR interval in ms of a heart rate; 60000 / 0 is treated by the callers
RR(hr) == IF hr = 0 THEN 0 ELSE TruncDiv(60000, hr)

RECURSIVE SumSeq(_, _)
\* rr[1] + ... + rr[n]
SumSeq(rr, n) == IF n = 0 THEN 0 ELSE rr[n] + SumSeq(rr, n - 1)

RECURSIVE SumSqDev(_, _, _)
\* sum of (rr[i] - mean)^2 for i in 1..n
SumSqDev(rr, n, mean) ==
    IF n = 0 THEN 0
    ELSE (rr[n] - mean) * (rr[n] - mean) + SumSqDev(rr, n - 1, mean)

RECURSIVE SumSqDiff(_, _)
\* sum of (rr[i+1] - rr[i])^2 for i in 1..n-1
SumSqDiff(rr, n) ==
    IF n <= 1 THEN 0
    ELSE (rr[n] - rr[n - 1]) * (rr[n] - rr[n - 1]) + SumSqDiff(rr, n - 1)

\* the number of successive differences with |diff| > 50:
\* |inf| > 50 holds, |nan| > 50 does not
CountOver50(hr_series, rr) ==
    Cardinality({i \in 1..(Len(rr) - 1) :
        IF hr_series[i] = 0 \/ hr_series[i + 1] = 0
        THEN ~(hr_series[i] = 0 /\ hr_series[i + 1] = 0)
        ELSE Abs(rr[i + 1] - rr[i]) > 50})

\* lines 321-330: the stress index and the record (rounded fields)
HRVFeatures(sdnn, rmssd, pnn50, lf_hf_ratio) ==
    [ kind         |-> "HRVFeatures",
      sdnn         |-> sdnn,
      rmssd        |-> rmssd,
      pnn50        |-> pnn50,
      lf_hf_ratio  |-> IF IsNone(lf_hf_ratio) \/ lf_hf_ratio.v = 0
                       THEN None ELSE lf_hf_ratio,
      stress_index |-> _calculate_stress_index(sdnn, rmssd, lf_hf_ratio) ]

\* the features of the window hr_series with RR intervals rr;
\* zero: the window holds a zero heart rate (an infinite RR interval)
HrvOfWindow(hr_series, rr, zero, mean_rr, lf) ==
    LET n == Len(rr)
        zz == \E i \in 1..(n - 1) : hr_series[i] = 0 /\ hr_series[i + 1] = 0
    IN HRVFeatures(
         IF zero THEN FNaN ELSE FNum(ISqrt(SumSqDev(rr, n, mean_rr) \div n)),
         IF zz THEN FNaN
         ELSE IF zero THEN FInf
         ELSE FNum(ISqrt(SumSqDiff(rr, n) \div (n - 1))),
         (CountOver50(hr_series, rr) * 10000) \div (n - 1),
         IF NUMPY_AVAILABLE /\ SCIPY_AVAILABLE /\ ~zero THEN lf ELSE None)

HrvOfSeries(hr_series, rr, lf) ==
    IF ~NUMPY_AVAILABLE /\ (\E i \in 1..Len(hr_series) : hr_series[i] = 0)
    THEN RaiseZeroDivision
    ELSE HrvOfWindow(hr_series, rr, \E i \in 1..Len(hr_series) : hr_series[i] = 0,
                     TruncDiv(SumSeq(rr, Len(rr)), Len(rr)), lf)

RRIntervals(hr_series) == [i \in 1..Len(hr_series) |-> RR(hr_series[i])]

\* lf is what the spectral estimate (scipy.signal.welch over the RR series,
\* band powers by np.trapz) yields for this window: None or a ratio >= 0.
\* Without numpy a zero heart rate in the window raises (60000 / hr).
_calculate_hrv_advanced(self, lf) ==
    IF TooFewSamples(self.hr_buffer) THEN None
    ELSE HrvOfSeries(
           SubSeq(self.hr_buffer, Len(self.hr_buffer) - HRV_MIN_SAMPLES + 1,
                  Len(self.hr_buffer)),
           RRIntervals(SubSeq(self.hr_buffer, Len(self.hr_buffer) - HRV_MIN_SAMPLES + 1,
                              Len(self.hr_buffer))),
           lf)

ML_MIN_SAMPLES == 30
ML_TRAIN_SAMPLES == 100

\* the oldest 100 values of the buffer
TrainingWindowOldest(hr_buffer) == SubSeq(hr_buffer, 1, ML_TRAIN_SAMPLES)

\* line 390: self.hr_buffer[-100:]
TrainingWindow(hr_buffer) ==
    SubSeq(hr_buffer, Len(hr_buffer) - ML_TRAIN_SAMPLES + 1, Len(hr_buffer))

\* the model is consulted first: once fitted it decides alone, and the rules
\* are the fallback
_detect_health_anomaly_model_first(self, hr, hrv, spo2, prediction) ==
    LET fit == /\ SKLEARN_AVAILABLE /\ NUMPY_AVAILABLE /\ ~self.anomaly_trained
               /\ Len(self.hr_buffer) >= ML_TRAIN_SAMPLES
        s1 == IF fit
              THEN [self EXCEPT !.anomaly_trained = TRUE,
                                !.training_data = TrainingWindow(self.hr_buffer)]
              ELSE self
    IN IF s1.anomaly_trained
       THEN [flag |-> prediction = -1, self |-> s1]
       ELSE [flag |-> \/ hr < 40 \/ hr > 200
                      \/ ~IsNone(spo2) /\ spo2.v < 90
                      \/ ~IsNone(hrv) /\ hrv.stress_index > 85,
             self |-> s1]

\* prediction is what IsolationForest.predict returns for hr: 1 or -1.
\* Returns the flag and the engine (the model may have been fitted:
\* training_data is what it was fitted on).
_detect_health_anomaly(self, hr, hrv, spo2, prediction) ==
    IF hr < 40 \/ hr > 200 THEN [flag |-> TRUE, self |-> self]
    ELSE IF ~IsNone(spo2) /\ spo2.v < 90 THEN [flag |-> TRUE, self |-> self]
    ELSE IF ~IsNone(hrv) /\ hrv.stress_index > 85 THEN [flag |-> TRUE, self |-> self]
    ELSE IF SKLEARN_AVAILABLE /\ Len(self.hr_buffer) >= ML_MIN_SAMPLES
    THEN LET fit == ~self.anomaly_trained /\ Len(self.hr_buffer) >= ML_TRAIN_SAMPLES
                    /\ NUMPY_AVAILABLE
             s1 == IF fit
                   THEN [self EXCEPT !.anomaly_trained = TRUE,
                                     !.training_data = TrainingWindow(self.hr_buffer)]
                   ELSE self
         IN [flag |-> s1.anomaly_trained /\ NUMPY_AVAILABLE /\ prediction = -1,
             self |-> s1]
    ELSE [flag |-> FALSE, self |-> self]

\* the clamp is missing
ClampFatigueMissing(fatigue) == fatigue

\* line 440: max(0.0, min(1.0, fatigue)), in millionths
ClampFatigue(fatigue) == Max2(0, Min2(1000000, fatigue))

\* the share of the reserve that is left instead of the share that is used
HrReserveLeft(hr, resting_hr, max_hr) ==
    Max2(0, Min2(1000000, TruncDiv(1000000 * (max_hr - hr), max_hr - resting_hr)))

\* lines 418-419: (hr - resting_hr) / (max_hr - resting_hr) clamped to [0, 1],
\* in millionths; max_hr # resting_hr
HrReserveUsed(hr, resting_hr, max_hr) ==
    Max2(0, Min2(1000000, TruncDiv(1000000 * (hr - resting_hr), max_hr - resting_hr)))

\* fatigue in millionths; raises when max_hr = resting_hr
_predict_fatigue(self, hr, hrv, activity) ==
    LET resting_hr == self.baseline.resting_hr
        max_hr == self.baseline.max_hr
    IN IF max_hr = resting_hr THEN RaiseZeroDivision
       ELSE
       LET hr_reserve_used == HrReserveUsed(hr, resting_hr, max_hr)
           f1 == (hr_reserve_used * 4) \div 10
           f2 == IF IsNone(hrv) THEN 0
                 ELSE (IF FLt(hrv.rmssd, 20) THEN 250000
                       ELSE IF FLt(hrv.rmssd, 30) THEN 150000 ELSE 0)
                      + hrv.stress_index * 2000
           f3 == IF activity \in {"intense_exercise", "moderate_exercise"} THEN 100000
                 ELSE IF activity = "resting" THEN -50000
                 ELSE 0
           fatigue == f1 + f2 + f3
       IN [kind |-> "float", v |-> ClampFatigue(fatigue)]

\* vo2 in hundredths: 15.3 * max_hr / resting_hr.
\* Returns the estimate (None or Some) and the engine (baseline may change).
\* every estimate is stored in the baseline, in the range or not
_estimate_vo2max_unchecked(self, hr, activity, steps) ==
    IF activity \notin {"moderate_exercise", "intense_exercise"}
    THEN [vo2 |-> self.baseline.vo2_max, self |-> self]
    ELSE IF self.baseline.resting_hr > 0 /\ hr > self.baseline.resting_hr
    THEN [vo2 |-> Some(TruncDiv(1530 * self.baseline.max_hr, self.baseline.resting_hr)),
          self |-> [self EXCEPT !.baseline.vo2_max =
                      Some(TruncDiv(1530 * self.baseline.max_hr, self.baseline.resting_hr))]]
    ELSE [vo2 |-> None, self |-> self]

_estimate_vo2max(self, hr, activity, steps) ==
    IF activity \notin {"moderate_exercise", "intense_exercise"}
    THEN [vo2 |-> self.baseline.vo2_max, self |-> self]
    ELSE
    LET resting_hr == self.baseline.resting_hr
        max_hr == self.baseline.max_hr
    IN IF resting_hr > 0 /\ hr > resting_hr
       THEN LET vo2_max == TruncDiv(1530 * max_hr, resting_hr)
                valid == 200 * resting_hr < 153 * max_hr /\ 153 * max_hr < 800 * resting_hr
            IN [vo2 |-> Some(vo2_max),
                self |-> IF valid THEN [self EXCEPT !.baseline.vo2_max = Some(vo2_max)]
                         ELSE self]
       ELSE [vo2 |-> None, self |-> self]

\* MET in tenths
met_values(activity) ==
    CASE activity = "resting" -> 10
      [] activity = "sleeping" -> 9
      [] activity = "walking" -> 35
      [] activity = "light_exercise" -> 50
      [] activity = "moderate_exercise" -> 70
      [] activity = "intense_exercise" -> 100
      [] activity = "unknown" -> 20
      [] OTHER -> 20

\* kcal/min in hundredths
_calculate_calories_advanced(self, hr, activity, vo2_max) ==
    LET met == met_values(activity)
        \* met/10 * weight * 3.5 / 200, in hundredths
        calories_per_min == (met * self.user_weight * 35) \div 200
        hr_num == IF hr > 70 THEN 150 + (hr - 70) ELSE 150
        vo2_num == IF ~IsNone(vo2_max) /\ vo2_max.v # 0 /\ vo2_max.v > 4000
                   THEN 10000 + (vo2_max.v - 4000) ELSE 10000
    IN (((calories_per_min * hr_num) \div 150) * vo2_num) \div 10000

\* hr_percent in hundredths; raises when max_hr = 0
_get_hr_zone(self, hr) ==
    LET max_hr == self.baseline.max_hr
    IN IF max_hr = 0 THEN RaiseZeroDivision
       ELSE
       LET hr_percent == TruncDiv(hr * 10000, max_hr)
           zone == IF RatLt(hr * 100, max_hr, 50) THEN 1
                   ELSE IF RatLt(hr * 100, max_hr, 60) THEN 2
                   ELSE IF RatLt(hr * 100, max_hr, 70) THEN 3
                   ELSE IF RatLt(hr * 100, max_hr, 85) THEN 4
                   ELSE 5
       IN [kind |-> "HRZone", zone |-> zone, hr_percent |-> hr_percent]

\* the anomaly flag is looked at after the CRITICAL thresholds
_assess_health_risk_thresholds_first(hr, hrv, is_anomaly, spo2) ==
    IF hr > 190 \/ hr < 40 THEN "CRITICAL"
    ELSE IF ~IsNone(spo2) /\ spo2.v < 88 THEN "CRITICAL"
    ELSE IF is_anomaly THEN "HIGH"
    ELSE IF hr > 180 \/ hr < 45 THEN "HIGH"
    ELSE IF ~IsNone(spo2) /\ spo2.v < 92 THEN "HIGH"
    ELSE IF ~IsNone(hrv) /\ hrv.stress_index > 70 THEN "MODERATE"
    ELSE IF hr > 160 THEN "MODERATE"
    ELSE "LOW"

_assess_health_risk(hr, hrv, is_anomaly, spo2) ==
    IF is_anomaly THEN "HIGH"
    ELSE IF hr > 190 \/ hr < 40 THEN "CRITICAL"
    ELSE IF ~IsNone(spo2) /\ spo2.v < 88 THEN "CRITICAL"
    ELSE IF hr > 180 \/ hr < 45 THEN "HIGH"
    ELSE IF ~IsNone(spo2) /\ spo2.v < 92 THEN "HIGH"
    ELSE IF ~IsNone(hrv) /\ hrv.stress_index > 70 THEN "MODERATE"
    ELSE IF hr > 160 THEN "MODERATE"
    ELSE "LOW"

\* round(x, 3) of a fatigue in millionths, in thousandths
Round3(micro) == (micro + 500) \div 1000
\* round(x, 1) of a vo2 in hundredths, in tenths
Round1(centi) == IF centi >= 0 THEN (centi + 5) \div 10 ELSE -((-centi + 5) \div 10)

\* lines 211-224: the record returned.  s.start_time is time.time() at line
\* 178 in half seconds, s.elapsed the processing time in hundredths of a ms.
ProcessedHealthData(s, activity, hrv, is_anomaly, fatigue, vo2_max, calories, hr_zone) ==
    [ kind              |-> "ProcessedHealthData",
      timestamp         |-> s.start_time \div 2,
      heart_rate        |-> s.hr,
      steps             |-> s.steps,
      activity          |-> activity,
      hrv               |-> hrv,
      anomaly_detected  |-> is_anomaly,
      fatigue_score     |-> Round3(fatigue.v),
      vo2_max           |-> IF ~IsNone(vo2_max) /\ vo2_max.v # 0
                            THEN Some(Round1(vo2_max.v)) ELSE None,
      calories_burned   |-> calories,
      hr_zone           |-> hr_zone,
      health_risk_level |-> _assess_health_risk(s.hr, hrv, is_anomaly, s.spo2),
      processing_time_ms |-> s.elapsed ]

\* lines 197-224, after the fatigue prediction returned
ProcessAfterFatigue(s, activity, hrv, is_anomaly, fatigue, est) ==
    IF IsRaise(_get_hr_zone(est.self, s.hr))
    THEN [self |-> est.self, out |-> RaiseZeroDivision]
    ELSE [self |-> est.self,
          out |-> ProcessedHealthData(s, activity, hrv, is_anomaly, fatigue, est.vo2,
                     _calculate_calories_advanced(est.self, s.hr, activity, est.vo2),
                     _get_hr_zone(est.self, s.hr))]

\* lines 194-224, after the anomaly detection returned
ProcessAfterAnomaly(s, activity, hrv, det, fatigue) ==
    IF IsRaise(fatigue) THEN [self |-> det.self, out |-> fatigue]
    ELSE ProcessAfterFatigue(s, activity, hrv, det.flag, fatigue,
                             _estimate_vo2max(det.self, s.hr, activity, s.steps))

\* lines 191-224, after the HRV analysis returned
ProcessAfterHrv(e1, s, activity, hrv, prediction, det) ==
    ProcessAfterAnomaly(s, activity, hrv, det,
                        _predict_fatigue(det.self, s.hr, hrv, activity))

\* lines 184-224, after the buffers were updated
ProcessAfterUpdate(e1, s, hrv, prediction) ==
    IF IsRaise(hrv) THEN [self |-> e1, out |-> hrv]
    ELSE ProcessAfterHrv(e1, s, _classify_activity(e1, s.hr, s.steps, s.ax, s.ay, s.az),
                         hrv, prediction,
                         _detect_health_anomaly(e1, s.hr, hrv, s.spo2, prediction))

ProcessWithBuffers(e1, s, lf, prediction) ==
    ProcessAfterUpdate(e1, s, _calculate_hrv_advanced(e1, lf), prediction)

\* process_realtime: [self |-> the engine afterwards, out |-> the record
\* returned or the exception raised].  A raise keeps the mutations made
\* before it.  s is the sample with the two clock reads of the call.
process_realtime(self, s, lf, prediction) ==
    ProcessWithBuffers(_update_buffers(self, s.hr, s.steps, <<s.ax, s.ay, s.az>>),
                       s, lf, prediction)

-----------------------------------------------------------------------------
(* HealthCoachEngine *)

\* time.time() is the clock in half seconds; int(time.time()) in seconds
HalfSecondsPerSecond == 2
IntTime(t) == t \div HalfSecondsPerSecond

decision_cooldown == 60

\* fatigue in thousandths, calories in hundredths of kcal
thresholds ==
    [ fatigue_warning           |-> 700,
      fatigue_critical          |-> 850,
      stress_warning            |-> 60,
      stress_critical           |-> 80,
      vo2_decline_percent       |-> 10,
      workout_calorie_threshold |-> 20000 ]

\* Decision(...) created at clock t; the messages are not modelled
Decision(action, priority, data, channels, t) ==
    [ kind                  |-> "Decision",
      action                |-> action,
      priority              |-> priority,
      data                  |-> data,
      notification_channels |-> channels,
      timestamp             |-> IntTime(t) ]

_handle_anomaly(data, t) ==
    LET risk_level == data.health_risk_level
        priority == IF risk_level = "CRITICAL" THEN "CRITICAL"
                    ELSE IF risk_level = "HIGH" THEN "HIGH"
                    ELSE "NORMAL"
    IN Decision("ALERT", priority,
                [heart_rate |-> data.heart_rate, health_risk |-> risk_level],
                {"websocket", "mqtt"}, t)

\* the thresholds are compared with >= instead of >
_handle_fatigue_inclusive(fatigue, t) ==
    IF fatigue >= thresholds.fatigue_critical
    THEN Decision("RECOMMENDATION", "HIGH",
                  [fatigue_score |-> fatigue, recommended_action |-> "rest_immediately"],
                  {"websocket", "mqtt"}, t)
    ELSE IF fatigue >= thresholds.fatigue_warning
    THEN Decision("RECOMMENDATION", "NORMAL",
                  [fatigue_score |-> fatigue, recommended_action |-> "reduce_intensity"],
                  {"websocket"}, t)
    ELSE None

_handle_fatigue(fatigue, t) ==
    IF fatigue > thresholds.fatigue_critical
    THEN Decision("RECOMMENDATION", "HIGH",
                  [fatigue_score |-> fatigue, recommended_action |-> "rest_immediately"],
                  {"websocket", "mqtt"}, t)
    ELSE IF fatigue > thresholds.fatigue_warning
    THEN Decision("RECOMMENDATION", "NORMAL",
                  [fatigue_score |-> fatigue, recommended_action |-> "reduce_intensity"],
                  {"websocket"}, t)
    ELSE None

\* the activity is not looked at
_handle_stress_any_activity(data, t) ==
    IF IsNone(data.hrv) THEN None
    ELSE IF data.hrv.stress_index > thresholds.stress_critical
    THEN Decision("RECOMMENDATION", "HIGH",
                  [stress_index |-> data.hrv.stress_index,
                   suggested_action |-> "breathing_exercise"],
                  {"websocket"}, t)
    ELSE IF data.hrv.stress_index > thresholds.stress_warning
    THEN Decision("RECOMMENDATION", "LOW",
                  [stress_index |-> data.hrv.stress_index,
                   suggested_action |-> "short_break"],
                  {"websocket"}, t)
    ELSE None

_handle_stress(data, t) ==
    IF IsNone(data.hrv) THEN None
    ELSE IF data.activity \notin {"moderate_exercise", "intense_exercise"} THEN None
    ELSE IF data.hrv.stress_index > thresholds.stress_critical
    THEN Decision("RECOMMENDATION", "HIGH",
                  [stress_index |-> data.hrv.stress_index,
                   suggested_action |-> "breathing_exercise"],
                  {"websocket"}, t)
    ELSE IF data.hrv.stress_index > thresholds.stress_warning
    THEN Decision("RECOMMENDATION", "LOW",
                  [stress_index |-> data.hrv.stress_index,
                   suggested_action |-> "short_break"],
                  {"websocket"}, t)
    ELSE None

_generate_cardio_plan ==
    [ type |-> "cardio_improvement", duration_weeks |-> 4, sessions_per_week |-> 3,
      intensity |-> "moderate", rest_days |-> 2 ]

\* user_baselines.get(user_id, {}).get("vo2_max"): None when absent
BaselineVo2(baselines, user_id) ==
    IF user_id \in DOMAIN baselines THEN baselines[user_id].vo2_max ELSE None

\* dict.get(key, default)
DictGet(dict, key, default) == IF key \in DOMAIN dict THEN dict[key] ELSE default

\* the dict with key user_id set to value
DictSet(dict, key, value) ==
    [k \in DOMAIN dict \cup {key} |-> IF k = key THEN value ELSE dict[k]]

Truthy(x) == ~IsNone(x) /\ x.v # 0

\* a declined reading becomes the baseline
_handle_vo2_changes_tracking(baselines, data, user_id, t) ==
    LET vo2_max == data.vo2_max
        baseline_vo2 == BaselineVo2(baselines, user_id)
    IN IF ~Truthy(vo2_max) THEN [decision |-> None, baselines |-> baselines]
       ELSE IF ~Truthy(baseline_vo2)
       THEN [decision |-> None,
             baselines |-> DictSet(baselines, user_id, [vo2_max |-> vo2_max])]
       ELSE IF 100 * vo2_max.v < baseline_vo2.v * (100 - thresholds.vo2_decline_percent)
       THEN [decision |-> Decision("ADJUST_PLAN", "LOW",
                             [current_vo2 |-> vo2_max.v, baseline_vo2 |-> baseline_vo2.v,
                              plan_modification |-> _generate_cardio_plan],
                             {"websocket"}, t),
             baselines |-> DictSet(baselines, user_id, [vo2_max |-> vo2_max])]
       ELSE IF 100 * vo2_max.v > baseline_vo2.v * 105
       THEN [decision |-> None,
             baselines |-> DictSet(baselines, user_id, [vo2_max |-> vo2_max])]
       ELSE [decision |-> None, baselines |-> baselines]

\* the first reading is not stored
_handle_vo2_changes_unseeded(baselines, data, user_id, t) ==
    [decision |-> None, baselines |-> baselines]

\* [decision |-> None or the decision, baselines |-> user_baselines afterwards]
_handle_vo2_changes(baselines, data, user_id, t) ==
    LET vo2_max == data.vo2_max
        baseline_vo2 == BaselineVo2(baselines, user_id)
    IN IF ~Truthy(vo2_max) THEN [decision |-> None, baselines |-> baselines]
       ELSE IF ~Truthy(baseline_vo2)
       THEN [decision |-> None,
             baselines |-> DictSet(baselines, user_id, [vo2_max |-> vo2_max])]
       ELSE IF 100 * vo2_max.v < baseline_vo2.v * (100 - thresholds.vo2_decline_percent)
       THEN [decision |-> Decision("ADJUST_PLAN", "LOW",
                             [current_vo2 |-> vo2_max.v, baseline_vo2 |-> baseline_vo2.v,
                              plan_modification |-> _generate_cardio_plan],
                             {"websocket"}, t),
             baselines |-> baselines]
       ELSE IF 100 * vo2_max.v > baseline_vo2.v * 105
       THEN [decision |-> None,
             baselines |-> DictSet(baselines, user_id, [vo2_max |-> vo2_max])]
       ELSE [decision |-> None, baselines |-> baselines]

\* `if nutrition_data:` holds for a dict with at least one key
DictTruthy(x) == ~IsNone(x) /\ DOMAIN x.v # {}

\* lines 318-320: the protein already eaten, read and not used afterwards
CurrentProtein(nutrition_data) ==
    IF DictTruthy(nutrition_data) THEN DictGet(nutrition_data.v, "protein", 0) ELSE 0

\* the protein already eaten is taken off the suggestion
_handle_nutrition_recommendation_net_of_intake(health_data, nutrition_data, t) ==
    IF health_data.activity \in {"moderate_exercise", "intense_exercise"}
    THEN Decision("NUTRITION", "LOW",
                  [calories_burned |-> health_data.calories_burned,
                   protein |-> TruncDiv(health_data.calories_burned, 20 * 100)
                                 - CurrentProtein(nutrition_data),
                   carbs |-> TruncDiv(health_data.calories_burned, 10 * 100),
                   activity |-> health_data.activity],
                  {"websocket"}, t)
    ELSE None

\* the activity is not looked at
_handle_nutrition_recommendation_any_activity(health_data, nutrition_data, t) ==
    Decision("NUTRITION", "LOW",
             [calories_burned |-> health_data.calories_burned,
              protein |-> TruncDiv(health_data.calories_burned, 20 * 100),
              carbs |-> TruncDiv(health_data.calories_burned, 10 * 100),
              activity |-> health_data.activity],
             {"websocket"}, t)

\* int(calories_burned / 20) g of protein, int(calories_burned / 10) g of carbs
_handle_nutrition_recommendation(health_data, nutrition_data, t) ==
    IF health_data.activity \in {"moderate_exercise", "intense_exercise"}
    THEN LET current_protein == CurrentProtein(nutrition_data)
         IN Decision("NUTRITION", "LOW",
                     [calories_burned |-> health_data.calories_burned,
                      protein |-> TruncDiv(health_data.calories_burned, 20 * 100),
                      carbs |-> TruncDiv(health_data.calories_burned, 10 * 100),
                      activity |-> health_data.activity],
                     {"websocket"}, t)
    ELSE None

_handle_hr_zone(data, t) ==
    IF data.hr_zone.zone >= 5
    THEN Decision("RECOMMENDATION", "NORMAL", data.hr_zone, {"websocket"}, t)
    ELSE None

\* the comparison is <= instead of <
WithinCooldownInclusive(now, timestamp) ==
    now - timestamp * HalfSecondsPerSecond <= decision_cooldown * HalfSecondsPerSecond

\* line 374: now - d.timestamp < self.decision_cooldown
WithinCooldown(now, timestamp) ==
    now - timestamp * HalfSecondsPerSecond < decision_cooldown * HalfSecondsPerSecond

\* recent: the user's history; now: time.time() at this call
_is_duplicate(recent, decision, now) ==
    \E i \in 1..Len(recent) :
        recent[i].action = decision.action /\ WithinCooldown(now, recent[i].timestamp)

\* the comparison is <= instead of <
RecentInclusive(now, timestamp) ==
    now - timestamp * HalfSecondsPerSecond <= decision_cooldown * 2 * HalfSecondsPerSecond

\* line 387: now - d.timestamp < self.decision_cooldown * 2
Recent(now, timestamp) ==
    now - timestamp * HalfSecondsPerSecond < decision_cooldown * 2 * HalfSecondsPerSecond

_clean_old_decisions(recent, now) == SelectSeq(recent, LAMBDA d : Recent(now, d.timestamp))

\* The calls of time.time() in one make_decisions call, in program order.
ReadClean == 1
ReadAnomaly == 2
ReadAnomalyDup == 3
ReadFatigue == 4
ReadFatigueDup == 5
ReadStress == 6
ReadStressDup == 7
ReadVo2 == 8
ReadNutrition == 9
ReadZone == 10
ReadZoneDup == 11

\* A call is shorter than half a second: the clock steps at most once while
\* it runs, before read number tickAt (0: not at all).
TimeAt(read, tickAt) == IF tickAt # 0 /\ read >= tickAt THEN clock + 1 ELSE clock

Kept(candidate, recent, now) ==
    IF ~IsNone(candidate) /\ ~_is_duplicate(recent, candidate, now)
    THEN <<candidate>> ELSE <<>>
Unchecked(candidate) == IF ~IsNone(candidate) THEN <<candidate>> ELSE <<>>

\* lines 128-166 over the pruned history: the batch and the baselines
DecisionsOver(recent, vo2, data, nutrition_data, tickAt) ==
    [ decisions |->
        (IF data.anomaly_detected
         THEN Kept(_handle_anomaly(data, TimeAt(ReadAnomaly, tickAt)), recent,
                   TimeAt(ReadAnomalyDup, tickAt))
         ELSE <<>>)
        \o Kept(_handle_fatigue(DictGet(data, "fatigue_score", 0),
                                TimeAt(ReadFatigue, tickAt)), recent,
                TimeAt(ReadFatigueDup, tickAt))
        \o Kept(_handle_stress(data, TimeAt(ReadStress, tickAt)), recent,
                TimeAt(ReadStressDup, tickAt))
        \o Unchecked(vo2.decision)
        \o (IF data.calories_burned > thresholds.workout_calorie_threshold
            THEN Unchecked(_handle_nutrition_recommendation(data, nutrition_data,
                                TimeAt(ReadNutrition, tickAt)))
            ELSE <<>>)
        \o Kept(_handle_hr_zone(data, TimeAt(ReadZone, tickAt)), recent,
                TimeAt(ReadZoneDup, tickAt)),
      baselines |-> vo2.baselines ]

\* one list is shared by all users
HistoryOfAnyUser(user_id) ==
    IF DOMAIN recent_decisions = {} THEN <<>>
    ELSE recent_decisions[CHOOSE u \in DOMAIN recent_decisions : TRUE]

\* the user's history, [] when the user has none yet
HistoryOf(user_id) ==
    IF user_id \in DOMAIN recent_decisions THEN recent_decisions[user_id] ELSE <<>>

\* the batch is put in front of the history
StoredInFront(recent, decisions) == decisions \o recent

\* line 164: self.recent_decisions[user_id].extend(decisions)
Stored(recent, decisions) == recent \o decisions

\* make_decisions: [decisions, baselines, recent] afterwards
make_decisions(processed_data, user_id, nutrition_data, tickAt) ==
    LET recent == _clean_old_decisions(HistoryOf(user_id), TimeAt(ReadClean, tickAt))
        out == DecisionsOver(recent,
                 _handle_vo2_changes(user_baselines, processed_data, user_id,
                                     TimeAt(ReadVo2, tickAt)),
                 processed_data, nutrition_data, tickAt)
    IN [ decisions |-> out.decisions,
         baselines |-> out.baselines,
         recent |-> DictSet(recent_decisions, user_id, Stored(recent, out.decisions)) ]

-----------------------------------------------------------------------------
(* execute_decisions *)

NoExec == [kind |-> "none"]
NoFault == [at |-> 0, channel |-> "none", kind |-> "none"]

\* what the channel does with the i-th decision: "sent", "failed"
\* (publish_alert returns False) or "raise"
Outcome(fault, i, channel) ==
    IF fault.at = i /\ fault.channel = channel THEN fault.kind ELSE "sent"

Delivery(i, channel, outcome) == [decision |-> i, channel |-> channel, outcome |-> outcome]

RECURSIVE DispatchFrom(_, _, _, _, _, _)
\* lines 396-415 from the i-th decision on: the log of the calls that came
\* back from a channel, and "returned" or "raised".  Nothing catches an
\* exception of publish_alert or of the websocket callback.
DispatchFrom(decisions, i, mqtt, callback, fault, log) ==
    IF i > Len(decisions) THEN [kind |-> "exec", outcome |-> "returned", log |-> log]
    ELSE
    LET channels == decisions[i].notification_channels
        use_mqtt == "mqtt" \in channels /\ mqtt
        use_ws == "websocket" \in channels /\ callback
        log1 == IF use_mqtt
                THEN Append(log, Delivery(i, "mqtt", Outcome(fault, i, "mqtt")))
                ELSE log
        log2 == IF use_ws
                THEN Append(log1, Delivery(i, "websocket", Outcome(fault, i, "websocket")))
                ELSE log1
    IN IF use_mqtt /\ Outcome(fault, i, "mqtt") = "raise"
       THEN [kind |-> "exec", outcome |-> "raised", log |-> log]
       ELSE IF use_ws /\ Outcome(fault, i, "websocket") = "raise"
       THEN [kind |-> "exec", outcome |-> "raised", log |-> log1]
       ELSE DispatchFrom(decisions, i + 1, mqtt, callback, fault, log2)

\* mqtt: self.mqtt_handler and self.enable_mqtt; callback: websocket_callback
execute_decisions(decisions, mqtt, callback, fault) ==
    DispatchFrom(decisions, 1, mqtt, callback, fault, <<>>)

-----------------------------------------------------------------------------
(* The sensor and the engine's callers *)

\* a reading: heart rate, step increment per tick, acceleration, spo2
Reading(hr, dsteps, ax, ay, az, spo2) ==
    [hr |-> hr, dsteps |-> dsteps, ax |-> ax, ay |-> ay, az |-> az, spo2 |-> spo2]

Regimes ==
    { Reading(75, 0, 0, 0, 98, Some(98)),
      Reading(55, 0, 0, 0, 0, None),
      Reading(65, 0, 0, 0, 10, None),
      Reading(140, 2, 3, 3, 98, Some(97)),
      Reading(195, 2, 3, 3, 98, Some(98)),
      Reading(205, 2, 3, 3, 98, None),
      Reading(100, 1, 0, 0, 98, Some(85)),
      Reading(0, 0, 0, 0, 98, None),
      Reading(-60, 0, 0, 0, 98, None) }

\* what the spectral estimate can yield (hundredths)
LfHfOutcomes == {None, Some(0), Some(150), Some(250), Some(350)}

\* builds and constructor arguments
Builds ==
    { [numpy |-> FALSE, scipy |-> FALSE, sklearn |-> FALSE, age |-> 30, weight |-> 70],
      [numpy |-> TRUE, scipy |-> FALSE, sklearn |-> FALSE, age |-> 30, weight |-> 70],
      [numpy |-> TRUE, scipy |-> TRUE, sklearn |-> TRUE, age |-> 30, weight |-> 70],
      [numpy |-> TRUE, scipy |-> FALSE, sklearn |-> FALSE, age |-> 150, weight |-> 70],
      [numpy |-> TRUE, scipy |-> FALSE, sklearn |-> FALSE, age |-> 220, weight |-> 70],
      [numpy |-> TRUE, scipy |-> FALSE, sklearn |-> FALSE, age |-> 250, weight |-> 70] }

MaxTicks == 61
\* the ticks at which the sensor may switch to another reading
FreeTicks == {1, HRV_MIN_SAMPLES, HRV_MIN_SAMPLES + 1}

\* a sample together with the clock reads of the call that processes it
Call(s, start_time, elapsed) ==
    [ hr |-> s.hr, steps |-> s.steps, ax |-> s.ax, ay |-> s.ay, az |-> s.az,
      spo2 |-> s.spo2, start_time |-> start_time, elapsed |-> elapsed ]
\* how long a call takes, in hundredths of a millisecond
Durations == {12}

NoResult == [kind |-> "none"]
NoScenario == [name |-> "none"]
NoReading == Reading(0, 0, 0, 0, 0, None)

\* main.py after import: no hits yet
InitMainIdle ==
    /\ _hits = <<>>
    /\ workers = <<>>
    /\ served = <<>>
    /\ waits = 0
    /\ _inflight = <<>>
    /\ requests = <<>>
    /\ _api_cooldown = <<>>
    /\ generations = <<>>
    /\ limited = <<>>
    /\ active_connections = <<>>

InitCoachIdle ==
    /\ InitMainIdle
    /\ clock = 0
    /\ user_baselines = <<>>
    /\ recent_decisions = <<>>
    /\ returned = <<>>
    /\ last_call = None
    /\ calls = 0
    /\ waited = FALSE
    /\ dispatched = <<>>
    /\ exec_result = [kind |-> "none"]
    /\ sockets = <<>>
    /\ loop = 0

InitBuilt(builds) ==
    /\ \E b \in builds :
         /\ NUMPY_AVAILABLE = b.numpy
         /\ SCIPY_AVAILABLE = b.scipy
         /\ SKLEARN_AVAILABLE = b.sklearn
         /\ engine = NewEngine(b.age, b.weight)
    /\ result = NoResult
    /\ pushed = <<>>
    /\ regime = NoReading
    /\ welch = None
    /\ twin = engine
    /\ twin_result = NoResult
    /\ scenario = NoScenario
    /\ InitCoachIdle

\* One websocket message: the sensor's reading goes through process_realtime.
Tick(readings, free, maxTicks, lfs) ==
    /\ Len(pushed) < maxTicks
    /\ \E r \in (IF Len(pushed) + 1 \in free THEN readings ELSE {regime}) :
       LET steps == (IF pushed = <<>> THEN 0 ELSE pushed[Len(pushed)].steps) + r.dsteps
           s == [hr |-> r.hr, steps |-> steps, ax |-> r.ax, ay |-> r.ay, az |-> r.az,
                 spo2 |-> r.spo2]
           \* the estimate yields a ratio only over a finite RR series
           spectral == /\ NUMPY_AVAILABLE /\ SCIPY_AVAILABLE
                       /\ Len(engine.hr_buffer) + 1 >= HRV_MIN_SAMPLES
                       /\ r.hr # 0
                       /\ \A i \in 1..Len(engine.hr_buffer) :
                            i > Len(engine.hr_buffer) + 1 - HRV_MIN_SAMPLES
                                => engine.hr_buffer[i] # 0
           forest == SKLEARN_AVAILABLE /\ NUMPY_AVAILABLE
                     /\ Len(engine.hr_buffer) + 1 >= ML_TRAIN_SAMPLES
       IN \E lf \in (IF spectral THEN lfs ELSE {None}) :
          \E prediction \in (IF forest THEN {1, -1} ELSE {1}) :
          \E elapsed \in Durations :
          \E r2 \in {process_realtime(engine, Call(s, clock, elapsed), lf, prediction)} :
               /\ engine' = r2.self
               /\ result' = r2.out
               /\ pushed' = Append(pushed, s)
               /\ regime' = r
               /\ welch' = lf
    /\ UNCHANGED <<NUMPY_AVAILABLE, SCIPY_AVAILABLE, SKLEARN_AVAILABLE, twin, twin_result,
                   scenario>>
    /\ UNCHANGED coachVars
    /\ UNCHANGED mainVars

TickEngine == Tick(Regimes, FreeTicks, MaxTicks, LfHfOutcomes)

InitEngine == InitBuilt(Builds)

NextEngine == TickEngine

SpecEngine == InitEngine /\ [][NextEngine]_vars

-----------------------------------------------------------------------------
(* Long runs: the windows fill up and evict *)

LongRegimes ==
    { Reading(72, 0, 0, 0, 98, None),
      Reading(150, 3, 5, 0, 98, Some(98)) }
LongBuilds ==
    { [numpy |-> TRUE, scipy |-> TRUE, sklearn |-> TRUE, age |-> 30, weight |-> 70] }
LongLfHf == {None, Some(350)}
MaxTicksLong == 302
LongFreeTicks == {1, 2, step_buffer_size + 1, hr_buffer_size + 1}

TickLong == Tick(LongRegimes, LongFreeTicks, MaxTicksLong, LongLfHf)

InitLong == InitBuilt(LongBuilds)

NextLong == TickLong

SpecLong == InitLong /\ [][NextLong]_vars

-----------------------------------------------------------------------------
(* Two engines fed the same samples *)

TwinRegimes ==
    { Reading(72, 0, 0, 0, 98, None),
      Reading(150, 3, 5, 0, 98, Some(98)) }
TwinBuilds ==
    { [numpy |-> FALSE, scipy |-> FALSE, sklearn |-> FALSE, age |-> 30, weight |-> 70],
      [numpy |-> TRUE, scipy |-> TRUE, sklearn |-> TRUE, age |-> 30, weight |-> 70] }
TwinLfHf == {None, Some(350)}
MaxTicksTwin == 101
TwinFreeTicks == {1, HRV_MIN_SAMPLES, ML_TRAIN_SAMPLES + 1}
\* how much later the second engine's call starts, in half seconds, and how
\* long it takes, in hundredths of a millisecond
TwinLags == {0, 2}
TwinDurations == {12, 13}

\* the forest is left unseeded: the second forest predicts on its own
UnseededPredictions(prediction) == {1, -1}

\* line 129, random_state=42: two forests fitted on the same data predict
\* the same label for the same heart rate
SeededPredictions(prediction) == {prediction}

\* One sample goes through process_realtime of both engines.  The spectral
\* estimate is a function of the window, which is the same in both.
TickTwin ==
    /\ Len(pushed) < MaxTicksTwin
    /\ \E r \in (IF Len(pushed) + 1 \in TwinFreeTicks THEN TwinRegimes ELSE {regime}) :
       LET steps == (IF pushed = <<>> THEN 0 ELSE pushed[Len(pushed)].steps) + r.dsteps
           s == [hr |-> r.hr, steps |-> steps, ax |-> r.ax, ay |-> r.ay, az |-> r.az,
                 spo2 |-> r.spo2]
           spectral == /\ NUMPY_AVAILABLE /\ SCIPY_AVAILABLE
                       /\ Len(engine.hr_buffer) + 1 >= HRV_MIN_SAMPLES
           forest == SKLEARN_AVAILABLE /\ NUMPY_AVAILABLE
                     /\ Len(engine.hr_buffer) + 1 >= ML_TRAIN_SAMPLES
       IN \E lf \in (IF spectral THEN TwinLfHf ELSE {None}) :
          \E prediction \in (IF forest THEN {1, -1} ELSE {1}) :
          \E prediction2 \in SeededPredictions(prediction) :
          \E lag \in TwinLags, elapsed \in Durations, elapsed2 \in TwinDurations :
          \E r1 \in {process_realtime(engine, Call(s, clock, elapsed), lf, prediction)} :
          \E r2 \in {process_realtime(twin, Call(s, clock + lag, elapsed2), lf, prediction2)} :
               /\ engine' = r1.self
               /\ result' = r1.out
               /\ twin' = r2.self
               /\ twin_result' = r2.out
               /\ pushed' = Append(pushed, s)
               /\ regime' = r
               /\ welch' = lf
    /\ UNCHANGED <<NUMPY_AVAILABLE, SCIPY_AVAILABLE, SKLEARN_AVAILABLE, scenario>>
    /\ UNCHANGED coachVars
    /\ UNCHANGED mainVars

InitTwin == InitBuilt(TwinBuilds)

NextTwin == TickTwin

SpecTwin == InitTwin /\ [][NextTwin]_vars

-----------------------------------------------------------------------------
(* The outlier model: runs up to and past its fit *)

ForestRegimes ==
    { Reading(72, 0, 0, 0, 98, None),
      Reading(150, 3, 5, 0, 98, Some(98)),
      Reading(205, 3, 5, 0, 98, None),
      Reading(100, 1, 0, 0, 98, Some(85)) }
ForestBuilds ==
    { [numpy |-> FALSE, scipy |-> FALSE, sklearn |-> FALSE, age |-> 30, weight |-> 70],
      [numpy |-> TRUE, scipy |-> TRUE, sklearn |-> TRUE, age |-> 30, weight |-> 70] }
ForestLfHf == {None, Some(350)}
MaxTicksForest == 101
ForestFreeTicks == {1, HRV_MIN_SAMPLES, ML_TRAIN_SAMPLES, ML_TRAIN_SAMPLES + 1}

\* One sample goes through process_realtime.  What the forest would predict
\* for the heart rate is drawn at every tick: whether the prediction is
\* asked for is up to _detect_health_anomaly.
TickForest ==
    /\ Len(pushed) < MaxTicksForest
    /\ \E r \in (IF Len(pushed) + 1 \in ForestFreeTicks THEN ForestRegimes ELSE {regime}) :
       LET steps == (IF pushed = <<>> THEN 0 ELSE pushed[Len(pushed)].steps) + r.dsteps
           s == [hr |-> r.hr, steps |-> steps, ax |-> r.ax, ay |-> r.ay, az |-> r.az,
                 spo2 |-> r.spo2]
           spectral == /\ NUMPY_AVAILABLE /\ SCIPY_AVAILABLE
                       /\ Len(engine.hr_buffer) + 1 >= HRV_MIN_SAMPLES
       IN \E lf \in (IF spectral THEN ForestLfHf ELSE {None}) :
          \E prediction \in {1, -1}, elapsed \in Durations :
          \E r2 \in {process_realtime(engine, Call(s, clock, elapsed), lf, prediction)} :
               /\ engine' = r2.self
               /\ result' = r2.out
               /\ pushed' = Append(pushed, s)
               /\ regime' = r
               /\ welch' = lf
    /\ UNCHANGED <<NUMPY_AVAILABLE, SCIPY_AVAILABLE, SKLEARN_AVAILABLE, twin, twin_result,
                   scenario>>
    /\ UNCHANGED coachVars
    /\ UNCHANGED mainVars

InitForest == InitBuilt(ForestBuilds)

NextForest == TickForest

SpecForest == InitForest /\ [][NextForest]_vars

-----------------------------------------------------------------------------
(* Scripted sample sequences *)

\* test_health_ai_engine, lines 573-584: 120 ticks of a resting heart rate
\* in 65..85 with the step counter at 2 * i; the device lies flat (gravity
\* on z) and reports a normal spo2
RestTicks == 120
RestScenarios ==
    { [name |-> "rest", pattern |-> p, ticks |-> RestTicks] :
        p \in {"steady", "swing", "sweep"} }
\* a heart rate that climbs from 70 to 160 in 60 ticks, the step counter
\* constant, the other arguments at their defaults
RampScenarios ==
    { [name |-> "ramp", pattern |-> p, ticks |-> HRV_MIN_SAMPLES] :
        p \in {"linear", "late", "early"} }

\* the n-th sample of a scenario, n = 1 .. ticks
ScenarioSample(sc, n) ==
    IF sc.name = "rest"
    THEN [ hr |-> CASE sc.pattern = "steady" -> 75
                    [] sc.pattern = "swing" -> IF n % 2 = 1 THEN 65 ELSE 85
                    [] OTHER -> 65 + (((n - 1) * 7) % 21),
           steps |-> (n - 1) * 2, ax |-> 0, ay |-> 0, az |-> 98, spo2 |-> Some(97) ]
    ELSE [ hr |-> CASE sc.pattern = "linear" -> 70 + (90 * (n - 1)) \div (sc.ticks - 1)
                    [] sc.pattern = "late" -> IF n <= 30 THEN 70 ELSE 70 + 3 * (n - 30)
                    [] OTHER -> IF n <= 30 THEN 70 + 3 * (n - 1) ELSE 160,
           steps |-> 500, ax |-> 0, ay |-> 0, az |-> 98, spo2 |-> None ]

ScenarioBuilds ==
    { [numpy |-> FALSE, scipy |-> FALSE, sklearn |-> FALSE, age |-> 30, weight |-> 70],
      [numpy |-> TRUE, scipy |-> TRUE, sklearn |-> TRUE, age |-> 30, weight |-> 70],
      [numpy |-> TRUE, scipy |-> FALSE, sklearn |-> FALSE, age |-> 60, weight |-> 70] }

\* the next sample of the scenario goes through process_realtime
TickScenario ==
    /\ scenario # NoScenario
    /\ Len(pushed) < scenario.ticks
    /\ LET s == ScenarioSample(scenario, Len(pushed) + 1)
           spectral == /\ NUMPY_AVAILABLE /\ SCIPY_AVAILABLE
                       /\ Len(engine.hr_buffer) + 1 >= HRV_MIN_SAMPLES
           forest == SKLEARN_AVAILABLE /\ NUMPY_AVAILABLE
                     /\ Len(engine.hr_buffer) + 1 >= ML_TRAIN_SAMPLES
       IN \E lf \in (IF spectral THEN LfHfOutcomes ELSE {None}) :
          \E prediction \in (IF forest THEN {1, -1} ELSE {1}) :
          \E elapsed \in Durations :
          \E r2 \in {process_realtime(engine, Call(s, clock, elapsed), lf, prediction)} :
               /\ engine' = r2.self
               /\ result' = r2.out
               /\ pushed' = Append(pushed, s)
               /\ welch' = lf
    /\ UNCHANGED <<NUMPY_AVAILABLE, SCIPY_AVAILABLE, SKLEARN_AVAILABLE, regime, twin,
                   twin_result, scenario>>
    /\ UNCHANGED coachVars
    /\ UNCHANGED mainVars

InitScenario ==
    /\ \E b \in ScenarioBuilds :
         /\ NUMPY_AVAILABLE = b.numpy
         /\ SCIPY_AVAILABLE = b.scipy
         /\ SKLEARN_AVAILABLE = b.sklearn
         /\ engine = NewEngine(b.age, b.weight)
    /\ result = NoResult
    /\ pushed = <<>>
    /\ regime = NoReading
    /\ welch = None
    /\ twin = engine
    /\ twin_result = NoResult
    /\ scenario \in RestScenarios \cup RampScenarios
    /\ InitCoachIdle

NextScenario == TickScenario

SpecScenario == InitScenario /\ [][NextScenario]_vars

-----------------------------------------------------------------------------
(* The coach's callers *)

Users == {1}

\* what make_decisions is given: the fields it reads of a processed record
Data(hr, anomaly, risk, fatigue, hrv, activity, vo2, calories, zone) ==
    [ heart_rate |-> hr, anomaly_detected |-> anomaly, health_risk_level |-> risk,
      fatigue_score |-> fatigue, hrv |-> hrv, activity |-> activity, vo2_max |-> vo2,
      calories_burned |-> calories, hr_zone |-> [zone |-> zone] ]
Stress(x) == [kind |-> "HRVFeatures", stress_index |-> x]

CoachInputs ==
    { Data(75, FALSE, "LOW", 300, Stress(45), "resting", None, 150, 1),
      Data(185, TRUE, "HIGH", 900, Stress(85), "unknown", None, 0, 4),
      Data(195, TRUE, "CRITICAL", 600, None, "light_exercise", None, 800, 3),
      Data(145, FALSE, "LOW", 600, None, "moderate_exercise", Some(425), 35000, 4),
      Data(150, FALSE, "LOW", 650, Stress(70), "intense_exercise", Some(380), 1800, 4),
      Data(150, FALSE, "LOW", 500, None, "moderate_exercise", Some(450), 1700, 4),
      Data(180, FALSE, "MODERATE", 900, Stress(85), "intense_exercise", None, 2300, 5),
      Data(120, FALSE, "LOW", 750, None, "walking", None, 500, 2) }

NutritionInputs == {None, Some([protein |-> 40])}
\* nutrition_data is read by the nutrition handler only: calls that do not
\* reach it are made without the argument
NutritionFor(data) ==
    IF data.calories_burned > thresholds.workout_calorie_threshold
    THEN NutritionInputs ELSE {None}

\* how long after the previous call a call may arrive, in half seconds
Delays == {0, 119, 120}
\* where the clock may step during a call: not at all, or between the
\* creation of the alert and its duplicate check
TickAts == {0, ReadAnomalyDup}
\* a call that follows the previous one without a wait runs within the same
\* half second
TicksFor(afterWait) == IF afterWait THEN TickAts ELSE {0}

MaxCalls == 3

InitEngineIdle ==
    /\ NUMPY_AVAILABLE = TRUE
    /\ SCIPY_AVAILABLE = TRUE
    /\ SKLEARN_AVAILABLE = TRUE
    /\ engine = NewEngine(30, 70)
    /\ result = NoResult
    /\ pushed = <<>>
    /\ regime = NoReading
    /\ welch = None
    /\ twin = engine
    /\ twin_result = NoResult
    /\ scenario = NoScenario

InitCoach == InitEngineIdle /\ InitCoachIdle

\* time passes until the next call arrives
AdvanceClock ==
    /\ waited = FALSE
    /\ calls < MaxCalls
    /\ \E d \in Delays \ {0} : clock' = clock + d
    /\ waited' = TRUE
    /\ UNCHANGED <<user_baselines, recent_decisions, returned, last_call, calls,
                   dispatched, exec_result, sockets, loop>>
    /\ UNCHANGED engineVars
    /\ UNCHANGED mainVars

\* one make_decisions call
MakeDecisions ==
    /\ calls < MaxCalls
    /\ \E user_id \in Users, data \in CoachInputs, tickAt \in TicksFor(waited) :
       \E nutrition_data \in NutritionFor(data) :
         /\ \E r \in {make_decisions(data, user_id, nutrition_data, tickAt)} :
              /\ recent_decisions' = r.recent
              /\ user_baselines' = r.baselines
              /\ returned' = r.decisions
         /\ last_call' = Some([user_id |-> user_id, data |-> data,
                                found |-> Len(HistoryOf(user_id))])
         /\ clock' = IF tickAt # 0 THEN clock + 1 ELSE clock
    /\ calls' = calls + 1
    /\ waited' = FALSE
    /\ dispatched' = <<>>
    /\ exec_result' = NoExec
    /\ UNCHANGED <<sockets, loop>>
    /\ UNCHANGED engineVars
    /\ UNCHANGED mainVars

\* main.py lines 1746-1752: a websocket connects for a known user
SetUserBaseline ==
    /\ \E user_id \in Users :
         /\ BaselineVo2(user_baselines, user_id) # None \/ user_id \notin DOMAIN user_baselines
         /\ user_baselines' = DictSet(user_baselines, user_id, [vo2_max |-> None])
    /\ UNCHANGED <<clock, recent_decisions, returned, last_call, calls, waited,
                   dispatched, exec_result, sockets, loop>>
    /\ UNCHANGED engineVars
    /\ UNCHANGED mainVars

\* at most one channel call of a batch goes wrong
Faults(decisions) ==
    {NoFault}
    \cup { [at |-> i, channel |-> "mqtt", kind |-> k] :
             i \in { j \in 1..Len(decisions) : "mqtt" \in decisions[j].notification_channels },
             k \in {"failed", "raise"} }
    \cup { [at |-> i, channel |-> "websocket", kind |-> "raise"] :
             i \in { j \in 1..Len(decisions) :
                       "websocket" \in decisions[j].notification_channels } }

\* the batch returned last is handed to execute_decisions, once
ExecuteDecisions ==
    /\ ~IsNone(last_call)
    /\ exec_result = NoExec
    /\ \E mqtt \in BOOLEAN, callback \in BOOLEAN, fault \in Faults(returned) :
       \E r \in {execute_decisions(returned, mqtt, callback, fault)} :
         /\ dispatched' = r.log
         /\ exec_result' = [kind |-> "exec", outcome |-> r.outcome, mqtt |-> mqtt,
                            callback |-> callback, fault |-> fault]
    /\ UNCHANGED <<clock, user_baselines, recent_decisions, returned, last_call, calls,
                   waited, sockets, loop>>
    /\ UNCHANGED engineVars
    /\ UNCHANGED mainVars

NextCoach == AdvanceClock \/ MakeDecisions \/ SetUserBaseline

SpecCoach == InitCoach /\ [][NextCoach]_vars

-----------------------------------------------------------------------------
(* The /ws/health handler.  main.py keeps one engine per user_id in
   health_engines and one coach for all users: engine is the engine of
   user 1, twin the one of user 2. *)

\* the connections and the user of each: two of user 1, one of user 2
SocketUser == <<1, 1, 2>>
TwoUsers == {SocketUser[c] : c \in DOMAIN SocketUser}
SocketReadings ==
    { Reading(72, 0, 0, 0, 98, None),
      Reading(170, 3, 5, 0, 98, Some(98)),
      Reading(195, 3, 5, 0, 98, Some(98)),
      Reading(205, 3, 5, 0, 98, None) }
MaxMessages == 2

StageOf(c) == IF c \in DOMAIN sockets THEN sockets[c].stage ELSE "closed"
\* the handler has taken a message and not yet finished make_decisions
MidSample(c) == StageOf(c) \in {"received", "processed"}
Received == calls + Cardinality({c \in DOMAIN sockets : MidSample(c)})

LastSteps(self) ==
    IF self.step_buffer = <<>> THEN 0 ELSE self.step_buffer[Len(self.step_buffer)]

\* an await is placed after process_realtime as well
AwaitsAfterEachCall(stage) == stage \in {"processed", "decided"}

\* The handler is a coroutine: the event loop runs it until its next await.
\* Between receive_json and send_json (lines 1757-1813) there is none: the
\* handler gives up the loop only once make_decisions and the database
\* writes are done.
AwaitsAfter(stage) == stage = "decided"

\* WebSocketConnectionManager.connect, after the accept:
\* self.active_connections[user_id] = websocket
connect(connections, websocket, user_id) == DictSet(connections, user_id, websocket)

\* the entry is removed only when it is the websocket of the caller
disconnect_own(connections, websocket, user_id) ==
    IF user_id \in DOMAIN connections /\ connections[user_id] = websocket
    THEN [u \in DOMAIN connections \ {user_id} |-> connections[u]]
    ELSE connections

\* WebSocketConnectionManager.disconnect: self.active_connections.pop(user_id, None);
\* the handler passes its user_id, the manager is not told which websocket
disconnect(connections, websocket, user_id) ==
    [u \in DOMAIN connections \ {user_id} |-> connections[u]]

\* lines 1739-1752: a connection is accepted and registered; the user's coach
\* baseline is set
Connect ==
    /\ loop = 0
    /\ \E c \in DOMAIN SocketUser \ DOMAIN sockets :
         /\ sockets' = sockets @@ (c :> [stage |-> "waiting", raw |-> NoReading,
                                          processed |-> NoResult,
                                          nth |-> Cardinality(DOMAIN sockets) + 1])
         /\ active_connections' = connect(active_connections, c, SocketUser[c])
         /\ user_baselines' = DictSet(user_baselines, SocketUser[c], [vo2_max |-> None])
    /\ UNCHANGED <<clock, recent_decisions, returned, last_call, calls, waited,
                   dispatched, exec_result, loop>>
    /\ UNCHANGED engineVars
    /\ UNCHANGED helperVars

\* line 1757: receive_json returns a message and the handler resumes
Receive ==
    /\ loop = 0
    /\ Received < MaxMessages
    /\ \E c \in DOMAIN sockets, r \in SocketReadings :
         /\ sockets[c].stage = "waiting"
         /\ sockets' = [sockets EXCEPT ![c].stage = "received", ![c].raw = r]
         /\ loop' = c
    /\ UNCHANGED <<clock, user_baselines, recent_decisions, returned, last_call, calls,
                   waited, dispatched, exec_result>>
    /\ UNCHANGED engineVars
    /\ UNCHANGED mainVars

\* lines 1759-1766: the message goes through the engine of the user; an
\* exception ends the handler, which unregisters the user (lines 1817-1819)
Process ==
    /\ \E c \in DOMAIN sockets, elapsed \in Durations :
         /\ sockets[c].stage = "received"
         /\ loop \in {0, c}
         /\ LET user_id == SocketUser[c]
                self == IF user_id = 1 THEN engine ELSE twin
                raw == sockets[c].raw
                s == [hr |-> raw.hr, steps |-> LastSteps(self) + raw.dsteps, ax |-> raw.ax,
                      ay |-> raw.ay, az |-> raw.az, spo2 |-> raw.spo2]
            IN \E r2 \in {process_realtime(self, Call(s, clock, elapsed), None, 1)} :
                 /\ IF user_id = 1
                    THEN /\ engine' = r2.self
                         /\ result' = r2.out
                         /\ pushed' = Append(pushed, s)
                         /\ UNCHANGED <<twin, twin_result>>
                    ELSE /\ twin' = r2.self
                         /\ twin_result' = r2.out
                         /\ UNCHANGED <<engine, result, pushed>>
                 /\ sockets' = [sockets EXCEPT
                                  ![c].stage = IF IsRaise(r2.out) THEN "failed"
                                               ELSE "processed",
                                  ![c].processed = r2.out]
                 /\ loop' = IF IsRaise(r2.out) \/ AwaitsAfter("processed") THEN 0 ELSE c
                 /\ active_connections' =
                      IF IsRaise(r2.out)
                      THEN disconnect(active_connections, c, user_id)
                      ELSE active_connections
    /\ UNCHANGED <<NUMPY_AVAILABLE, SCIPY_AVAILABLE, SKLEARN_AVAILABLE, regime, welch,
                   scenario>>
    /\ UNCHANGED <<clock, user_baselines, recent_decisions, returned, last_call, calls,
                   waited, dispatched, exec_result>>
    /\ UNCHANGED helperVars

\* line 1769: make_decisions on the processed record; the handler then
\* awaits send_json and receive_json
DecideSocket ==
    /\ \E c \in DOMAIN sockets :
         /\ sockets[c].stage = "processed"
         /\ loop \in {0, c}
         /\ \E r \in {make_decisions(sockets[c].processed, SocketUser[c], None, 0)} :
              /\ recent_decisions' = r.recent
              /\ user_baselines' = r.baselines
              /\ returned' = r.decisions
         /\ last_call' = Some([user_id |-> SocketUser[c], data |-> sockets[c].processed,
                                found |-> Len(HistoryOf(SocketUser[c]))])
         /\ sockets' = [sockets EXCEPT ![c].stage = "waiting"]
         /\ loop' = IF AwaitsAfter("decided") THEN 0 ELSE c
    /\ calls' = calls + 1
    /\ waited' = FALSE
    /\ dispatched' = <<>>
    /\ exec_result' = NoExec
    /\ UNCHANGED clock
    /\ UNCHANGED engineVars
    /\ UNCHANGED mainVars

NextSocket == Connect \/ Receive \/ Process \/ DecideSocket

SpecSocket == InitCoach /\ [][NextSocket]_vars

\* lines 1815-1816: the client closes a connection whose handler waits in
\* receive_json; WebSocketDisconnect is raised there and the handler
\* unregisters the user
Disconnect ==
    /\ loop = 0
    /\ \E c \in DOMAIN sockets :
         /\ sockets[c].stage = "waiting"
         /\ sockets' = [sockets EXCEPT ![c].stage = "closed"]
         /\ active_connections' = disconnect(active_connections, c, SocketUser[c])
    /\ UNCHANGED <<clock, user_baselines, recent_decisions, returned, last_call, calls,
                   waited, dispatched, exec_result, loop>>
    /\ UNCHANGED engineVars
    /\ UNCHANGED helperVars

NextManager == Connect \/ Receive \/ Process \/ DecideSocket \/ Disconnect

SpecManager == InitCoach /\ [][NextManager]_vars

-----------------------------------------------------------------------------
(* Calls at the thresholds of the coach's handlers *)

\* a record on which no handler produces anything
Quiet == Data(75, FALSE, "LOW", 300, None, "resting", None, 0, 1)
\* the record without the key fatigue_score
Without(data, key) == [k \in DOMAIN data \ {key} |-> data[k]]

\* vo2_max in tenths around a baseline of 40.0: declines of 10 % and more,
\* improvements of 5 % and more; calories in hundredths around 200 kcal;
\* fatigue in thousandths and stress around the thresholds
HandlerInputs ==
    { [Quiet EXCEPT !.vo2_max = Some(v)] : v \in {400, 360, 359, 420, 421} }
    \cup { [Quiet EXCEPT !.calories_burned = 20000, !.activity = "moderate_exercise"],
           [Quiet EXCEPT !.calories_burned = 20001, !.activity = "intense_exercise"],
           [Quiet EXCEPT !.calories_burned = 25070, !.activity = "moderate_exercise"],
           [Quiet EXCEPT !.calories_burned = 25070, !.activity = "walking"] }
    \cup { [Quiet EXCEPT !.fatigue_score = f] : f \in {700, 701, 850, 851} }
    \cup { Without(Quiet, "fatigue_score") }
    \cup { [Quiet EXCEPT !.hrv = Stress(x), !.activity = "moderate_exercise"] :
             x \in {60, 61, 80, 81} }
    \cup { [Quiet EXCEPT !.hrv = Stress(90)],
           [Quiet EXCEPT !.activity = "intense_exercise"] }

\* nutrition snapshots: none, an empty one, one with and one without protein
HandlerNutrition ==
    {None, Some(<<>>), Some([protein |-> 40]), Some([carbs |-> 10])}
\* calls that do not reach the nutrition handler are made without a snapshot
HandlerNutritionFor(data) ==
    IF data.calories_burned > thresholds.workout_calorie_threshold
    THEN HandlerNutrition ELSE {None}

MaxHandlerCalls == 2

\* one make_decisions call on a record at a threshold
DecideAtThreshold ==
    /\ calls < MaxHandlerCalls
    /\ \E user_id \in Users, data \in HandlerInputs :
       \E nutrition_data \in HandlerNutritionFor(data) :
         /\ \E r \in {make_decisions(data, user_id, nutrition_data, 0)} :
              /\ recent_decisions' = r.recent
              /\ user_baselines' = r.baselines
              /\ returned' = r.decisions
         /\ last_call' = Some([user_id |-> user_id, data |-> data,
                                found |-> Len(HistoryOf(user_id)),
                                nutrition |-> nutrition_data])
    /\ calls' = calls + 1
    /\ waited' = FALSE
    /\ dispatched' = <<>>
    /\ exec_result' = NoExec
    /\ UNCHANGED <<clock, sockets, loop>>
    /\ UNCHANGED engineVars
    /\ UNCHANGED mainVars

\* the cooldown passes before the next call
WaitCooldown ==
    /\ waited = FALSE
    /\ calls > 0
    /\ calls < MaxHandlerCalls
    /\ clock' = clock + decision_cooldown * HalfSecondsPerSecond
    /\ waited' = TRUE
    /\ UNCHANGED <<user_baselines, recent_decisions, returned, last_call, calls,
                   dispatched, exec_result, sockets, loop>>
    /\ UNCHANGED engineVars
    /\ UNCHANGED mainVars

NextHandlers == DecideAtThreshold \/ WaitCooldown \/ SetUserBaseline

SpecHandlers == InitCoach /\ [][NextHandlers]_vars

\* batches that are dispatched
MaxBatches == 2
DecideBatch == calls < MaxBatches /\ MakeDecisions

NextDispatch == DecideBatch \/ ExecuteDecisions

SpecDispatch == InitCoach /\ [][NextDispatch]_vars

-----------------------------------------------------------------------------
(* main.py: rate_limit.  time.time() is the clock, in half seconds. *)

\* RATE_LIMITS.get(bucket, {"window": 60, "max": 10})
RATE_LIMITS(bucket) ==
    CASE bucket = "users" -> [window |-> 60, max |-> 3]
      [] bucket = "analyze_food" -> [window |-> 60, max |-> 5]
      [] bucket = "chat" -> [window |-> 60, max |-> 10]
      [] OTHER -> [window |-> 60, max |-> 10]

\* _hits[(ip, bucket)]: the defaultdict yields an empty deque for a new key
HitsOf(hits, key) == IF key \in DOMAIN hits THEN hits[key] ELSE <<>>

RECURSIVE PopExpired(_, _, _)
\* lines 73-74: while q and q[0] <= now - window: q.popleft()
PopExpired(q, now, window) ==
    IF q # <<>> /\ q[1] <= now - window * HalfSecondsPerSecond
    THEN PopExpired(Tail(q), now, window)
    ELSE q

\* lines 67-80: the deque of the key is pruned and its length is tested
\* against the limit: [hits afterwards, full]
rate_limit_check(hits, key, now) ==
    LET cfg == RATE_LIMITS(key[2])
        q == PopExpired(HitsOf(hits, key), now, cfg.window)
    IN [hits |-> DictSet(hits, key, q), full |-> Len(q) >= cfg.max]

\* line 81: q.append(now)
rate_limit_record(hits, key, now) == DictSet(hits, key, Append(HitsOf(hits, key), now))

\* rate_limit run without interruption: [hits afterwards, status]
rate_limit(hits, key, now) ==
    LET c == rate_limit_check(hits, key, now)
    IN IF c.full THEN [hits |-> c.hits, status |-> 429]
       ELSE [hits |-> rate_limit_record(c.hits, key, now), status |-> 200]

\* one more call of this key, time and status has ended
Served(key, now, status) ==
    LET e == [key |-> key, at |-> now, status |-> status]
    IN [x \in DOMAIN served \cup {e} |->
          IF x = e THEN (IF e \in DOMAIN served THEN served[e] + 1 ELSE 1)
          ELSE served[x]]

RECURSIVE Total(_, _)
\* the number of calls counted in the entries es of served
Total(counts, es) ==
    IF es = {} THEN 0
    ELSE LET e == CHOOSE x \in es : TRUE IN counts[e] + Total(counts, es \ {e})

\* the clients: two addresses, and the groups of (ip, bucket) that send
\* requests in one run
ClientGroups ==
    { { <<"10.0.0.1", "users">>, <<"10.0.0.2", "users">> },
      { <<"10.0.0.1", "users">>, <<"10.0.0.1", "analyze_food">> },
      { <<"10.0.0.1", "chat">> } }
Clients == UNION ClientGroups
InGroup(key) == \E g \in ClientGroups : DOMAIN _hits \cup {key} \subseteq g
\* the waits between requests, in half seconds: half a second less than the
\* window, then the remaining half second
LimitDelays == <<119, 1>>
\* how many requests a client sends beyond the limit of its bucket
MaxOver == 2
\* worker threads of the thread pool that serve /users
MaxWorkers == 2
Workers == 1..MaxWorkers
Busy == {w \in DOMAIN workers : workers[w].stage = "passed"}
\* the rate_limit calls of a key that have ended or are under way
Requests(key) ==
    Total(served, {e \in DOMAIN served : e.key = key})
        + Cardinality({w \in Busy : workers[w].key = key})
MayRequest(key) == InGroup(key) /\ Requests(key) < RATE_LIMITS(key[2]).max + MaxOver

\* /analyze-food (line 1541) and /chat (line 1599) are coroutines: they call
\* rate_limit on the event loop, which runs it to its end
RateLimit ==
    /\ \E key \in Clients :
         /\ key[2] \in {"analyze_food", "chat"}
         /\ MayRequest(key)
         /\ \E r \in {rate_limit(_hits, key, clock)} :
              /\ _hits' = r.hits
              /\ served' = Served(key, clock, r.status)
    /\ UNCHANGED <<workers, waits, _inflight, requests,
                   _api_cooldown, generations, limited, active_connections>>
    /\ UNCHANGED coachVars
    /\ UNCHANGED engineVars

\* create_user (line 717) is a plain function: it runs on a worker thread,
\* which can be preempted.  The thread reads the clock, prunes and tests the
\* deque (lines 67-76), and raises 429 or goes on to line 81.
CreateUserChecks ==
    /\ \E w \in Workers \ Busy, key \in Clients :
         /\ key[2] = "users"
         /\ MayRequest(key)
         /\ \E c \in {rate_limit_check(_hits, key, clock)} :
              /\ _hits' = c.hits
              /\ IF c.full
                 THEN /\ served' = Served(key, clock, 429)
                      /\ UNCHANGED workers
                 ELSE /\ workers' = DictSet(workers, w,
                                             [stage |-> "passed", key |-> key, now |-> clock])
                      /\ UNCHANGED served
    /\ UNCHANGED <<waits, _inflight, requests,
                   _api_cooldown, generations, limited, active_connections>>
    /\ UNCHANGED coachVars
    /\ UNCHANGED engineVars

\* line 81 on the worker thread: the hit is appended with the time the
\* thread read at line 71
CreateUserRecords ==
    /\ \E w \in Busy :
         /\ _hits' = rate_limit_record(_hits, workers[w].key, workers[w].now)
         /\ served' = Served(workers[w].key, workers[w].now, 200)
         /\ workers' = DictSet(workers, w, [stage |-> "idle"])
    /\ UNCHANGED <<waits, _inflight, requests,
                   _api_cooldown, generations, limited, active_connections>>
    /\ UNCHANGED coachVars
    /\ UNCHANGED engineVars

\* time passes between requests
PassTime ==
    /\ waits < Len(LimitDelays)
    /\ clock' = clock + LimitDelays[waits + 1]
    /\ waits' = waits + 1
    /\ UNCHANGED <<_hits, workers, served, _inflight, requests,
                   _api_cooldown, generations, limited, active_connections>>
    /\ UNCHANGED <<user_baselines, recent_decisions, returned, last_call, calls, waited,
                   dispatched, exec_result, sockets, loop>>
    /\ UNCHANGED engineVars

NextLimits == RateLimit \/ CreateUserChecks \/ CreateUserRecords \/ PassTime

SpecLimits == InitCoach /\ [][NextLimits]_vars

-----------------------------------------------------------------------------
(* Properties of the coach *)

EmittedActions == {"ALERT", "RECOMMENDATION", "ADJUST_PLAN", "NUTRITION"}

\* C1: no two decisions returned to one user, in one batch or in different
\* batches, have the same action and timestamps less than 60 s apart.  (The
\* history holds every returned decision younger than 120 s.)
C1_NoSameActionWithinCooldown ==
    \A u \in DOMAIN recent_decisions :
        \A i, j \in 1..Len(recent_decisions[u]) :
            (i < j /\ recent_decisions[u][i].action = recent_decisions[u][j].action)
                => Abs(recent_decisions[u][j].timestamp
                       - recent_decisions[u][i].timestamp) >= 60

\* the condition under which the handlers of an action produce a candidate
Triggered(action, data, baselines, user_id) ==
    CASE action = "ALERT" -> data.anomaly_detected
      [] action = "RECOMMENDATION" ->
            \/ data.fatigue_score > 700
            \/ /\ ~IsNone(data.hrv)
               /\ data.activity \in {"moderate_exercise", "intense_exercise"}
               /\ data.hrv.stress_index > 60
            \/ data.hr_zone.zone >= 5
      [] action = "ADJUST_PLAN" ->
            /\ Truthy(data.vo2_max)
            /\ Truthy(BaselineVo2(baselines, user_id))
            /\ 10 * data.vo2_max.v < 9 * BaselineVo2(baselines, user_id).v
      [] action = "NUTRITION" ->
            /\ data.calories_burned > 200 * 100
            /\ data.activity \in {"moderate_exercise", "intense_exercise"}

\* the history holds a decision of the action that is less than 60 s old at
\* time now (half seconds)
RecentlyDecided(history, action, now) ==
    \E i \in 1..Len(history) :
        history[i].action = action /\ now - 2 * history[i].timestamp < 2 * 60

Returns(batch, action) == \E i \in 1..Len(batch) : batch[i].action = action

\* C2: a make_decisions call at which an action's trigger condition holds,
\* and before which the user's history holds no decision of that action from
\* the last 60 s, returns a decision of that action.
C2_ReemittedAfterCooldown ==
    [][ calls' = calls + 1 =>
          \A action \in EmittedActions :
             ( /\ Triggered(action, last_call'.v.data, user_baselines, last_call'.v.user_id)
               /\ ~RecentlyDecided(HistoryOf(last_call'.v.user_id), action, clock) )
                 => Returns(returned', action) ]_vars

\* an alert was returned 60 s or more after an earlier alert that is still
\* in the history
C2_Witness ==
    /\ ~IsNone(last_call)
    /\ Returns(returned, "ALERT")
    /\ \E i \in 1..Len(HistoryOf(last_call.v.user_id)) :
         LET d == HistoryOf(last_call.v.user_id)[i]
         IN d.action = "ALERT" /\ d.timestamp + 60 <= returned[1].timestamp

\* a user's entry of a per-user dictionary, and the dictionary cut down to it
Slice(dict, user_id) == IF user_id \in DOMAIN dict THEN dict[user_id] ELSE <<>>
Only(dict, user_id) == [u \in DOMAIN dict \cap {user_id} |-> dict[u]]
SameSlice(before, after, user_id) ==
    /\ (user_id \in DOMAIN after) = (user_id \in DOMAIN before)
    /\ Slice(after, user_id) = Slice(before, user_id)

\* the batch a call returns, from the caller's own history and baseline
OwnBatch(history, baselines, data, user_id, tickAt) ==
    DecisionsOver(_clean_old_decisions(history, TimeAt(ReadClean, tickAt)),
                  _handle_vo2_changes(baselines, data, user_id, TimeAt(ReadVo2, tickAt)),
                  data, None, tickAt).decisions

\* C15: users are independent.  A make_decisions call for one user leaves
\* the history and the baseline of every other user unchanged, and the batch
\* it returns is the one computed from the caller's own history and
\* baseline, whatever calls of other users came before; a sample of one user
\* changes that user's engine only.
C15_UsersIndependent ==
    [][ /\ calls' = calls + 1 =>
             LET user_id == last_call'.v.user_id
                 tickAt == IF clock' = clock THEN 0 ELSE ReadAnomalyDup
             IN /\ \A other \in TwoUsers \ {user_id} :
                      /\ SameSlice(recent_decisions, recent_decisions', other)
                      /\ SameSlice(user_baselines, user_baselines', other)
                /\ returned' = OwnBatch(Slice(recent_decisions, user_id),
                                        Only(user_baselines, user_id),
                                        last_call'.v.data, user_id, tickAt)
                /\ engine' = engine /\ twin' = twin
        /\ engine' # engine =>
             (twin' = twin /\ recent_decisions' = recent_decisions
              /\ user_baselines' = user_baselines)
        /\ twin' # twin =>
             (engine' = engine /\ recent_decisions' = recent_decisions
              /\ user_baselines' = user_baselines) ]_vars

\* user 2 is returned an alert while user 1 has an alert from the same
\* second in its history, and each engine has seen a sample of its own
C15_Witness ==
    /\ ~IsNone(last_call)
    /\ last_call.v.user_id = 2
    /\ \E i \in 1..Len(returned) : returned[i].action = "ALERT"
    /\ \E i \in 1..Len(Slice(recent_decisions, 1)) :
         /\ recent_decisions[1][i].action = "ALERT"
         /\ recent_decisions[1][i].timestamp = returned[1].timestamp
    /\ Len(engine.hr_buffer) = 1
    /\ Len(twin.hr_buffer) = 1

\* the records the handler has passed or is about to pass to make_decisions
Processed ==
    {sockets[c].processed : c \in {k \in DOMAIN sockets : StageOf(k) = "processed"}}
        \cup (IF IsNone(last_call) THEN {} ELSE {last_call.v.data})
AllDecisions ==
    {returned[i] : i \in 1..Len(returned)}
        \cup UNION {{recent_decisions[u][i] : i \in 1..Len(recent_decisions[u])} :
                      u \in DOMAIN recent_decisions}

\* C31: in the handler's pipeline, where every record make_decisions is given
\* comes from process_realtime, a record with anomaly_detected has
\* health_risk_level HIGH; so every ALERT decision returned or kept in a
\* history has priority HIGH and carries health_risk HIGH: the CRITICAL and
\* the NORMAL branch of _handle_anomaly are not taken.
C31_AlertsAreHigh ==
    /\ \A rec \in Processed :
         rec.anomaly_detected => rec.health_risk_level = "HIGH"
    /\ \A d \in AllDecisions :
         d.action = "ALERT" => (d.priority = "HIGH" /\ d.data.health_risk = "HIGH")

\* an alert was returned for a sample over 200 BPM, and another sample was
\* rated CRITICAL and raised no alert
C31_Witness ==
    /\ \E i \in 1..Len(returned) : returned[i].action = "ALERT"
    /\ ~IsNone(last_call)
    /\ last_call.v.data.heart_rate > 200
    /\ \E c \in DOMAIN sockets :
         /\ StageOf(c) = "processed"
         /\ sockets[c].processed.health_risk_level = "CRITICAL"
         /\ ~sockets[c].processed.anomaly_detected

\* the entries of a history that are younger than 120 s at time now (half
\* seconds), in their order
Younger(history, now) == SelectSeq(history, LAMBDA d : now - 2 * d.timestamp < 2 * 120)
Sorted(history) ==
    \A i, j \in 1..Len(history) : i < j => history[i].timestamp <= history[j].timestamp

\* C17: a make_decisions call starts by pruning the user's history: of the
\* entries it finds, those whose age at the time of the call is 120 s or
\* more are removed and the younger ones are kept, whatever the handlers do
\* afterwards; so after the call every entry of the history has a timestamp
\* within 120 s of the time of the call.
C17_HistoryPruned ==
    [][ calls' = calls + 1 =>
          \E kept \in {Younger(HistoryOf(last_call'.v.user_id), clock)},
             after \in {recent_decisions'[last_call'.v.user_id]} :
             /\ Len(after) >= Len(kept)
             /\ SubSeq(after, 1, Len(kept)) = kept
             /\ \A i \in 1..Len(after) :
                   /\ clock - 2 * after[i].timestamp < 2 * 120
                   /\ 2 * after[i].timestamp <= clock' ]_vars

\* the last call found a history of which it removed an entry and kept an
\* entry
C17_Witness ==
    /\ ~IsNone(last_call)
    /\ Len(HistoryOf(last_call.v.user_id)) - Len(returned) > 0
    /\ Len(HistoryOf(last_call.v.user_id)) - Len(returned) < last_call.v.found

\* C18: a make_decisions call appends the batch it returns, in order, to the
\* pruned history of the user and nothing else: a candidate that the
\* duplicate check suppresses is neither returned nor recorded; and the
\* history stays ordered by timestamp.
C18_HistoryIsPrunedPlusBatch ==
    [][ calls' = calls + 1 =>
          \E kept \in {Younger(HistoryOf(last_call'.v.user_id), clock)},
             after \in {recent_decisions'[last_call'.v.user_id]} :
             /\ after = kept \o returned'
             /\ \A action \in {"ALERT", "RECOMMENDATION"} :
                   RecentlyDecided(kept, action, clock')
                      => \A i \in Len(kept) + 1..Len(after) : after[i].action # action
             /\ Sorted(HistoryOf(last_call'.v.user_id)) => Sorted(after) ]_vars

\* the last call found a history, pruned nothing of it, returned an alert
\* and suppressed a recommendation
C18_Witness ==
    /\ ~IsNone(last_call)
    /\ last_call.v.found > 0
    /\ Returns(returned, "ALERT")
    /\ Triggered("RECOMMENDATION", last_call.v.data, user_baselines, last_call.v.user_id)
    /\ ~Returns(returned, "RECOMMENDATION")
    /\ Len(HistoryOf(last_call.v.user_id)) = last_call.v.found + Len(returned)
    /\ SubSeq(HistoryOf(last_call.v.user_id), last_call.v.found + 1,
              Len(HistoryOf(last_call.v.user_id))) = returned

\* the decisions of a batch of one action, and those whose data carry a key
OfAction(batch, action) == SelectSeq(batch, LAMBDA d : d.action = action)
Carrying(batch, key) == SelectSeq(batch, LAMBDA d : key \in DOMAIN d.data)

\* the plan of _generate_cardio_plan
CardioPlan ==
    [ type |-> "cardio_improvement", duration_weeks |-> 4, sessions_per_week |-> 3,
      intensity |-> "moderate", rest_days |-> 2 ]

\* the call that is made in this step has a vo2_max reading, and the user's
\* baseline vo2_max was seeded before it
SeededReading ==
    /\ calls' = calls + 1
    /\ ~IsNone(last_call'.v.data.vo2_max)
    /\ ~IsNone(BaselineVo2(user_baselines, last_call'.v.user_id))

\* C23: once the baseline vo2_max of a user is seeded, a call whose reading
\* is at most 0.9 times the baseline (a decline of 10 % or more, exactly
\* 10 % included) returns an ADJUST_PLAN that carries the cardio plan, and
\* a call with a smaller decline returns no ADJUST_PLAN.
C23_DeclineOfTenPercentAdjustsPlan ==
    [][ SeededReading =>
          \E reading \in {last_call'.v.data.vo2_max.v},
             baseline \in {BaselineVo2(user_baselines, last_call'.v.user_id).v},
             plans \in {OfAction(returned', "ADJUST_PLAN")} :
             IF 10 * reading <= 9 * baseline
             THEN /\ Len(plans) = 1
                  /\ plans[1].data.plan_modification = CardioPlan
                  /\ plans[1].data.current_vo2 = reading
                  /\ plans[1].data.baseline_vo2 = baseline
             ELSE plans = <<>> ]_vars

\* C24: a reading of at least 1.05 times the seeded baseline (an improvement
\* of 5 % or more, exactly 5 % included) replaces the baseline and produces
\* no decision; a reading between 0.9 and 1.05 times the baseline changes
\* nothing and produces no decision.
C24_ImprovementOfFivePercentReplacesBaseline ==
    [][ SeededReading =>
          \E reading \in {last_call'.v.data.vo2_max.v},
             baseline \in {BaselineVo2(user_baselines, last_call'.v.user_id).v} :
             /\ 100 * reading >= 105 * baseline
                  => /\ BaselineVo2(user_baselines', last_call'.v.user_id) = Some(reading)
                     /\ OfAction(returned', "ADJUST_PLAN") = <<>>
             /\ (10 * reading > 9 * baseline /\ 100 * reading < 105 * baseline)
                  => /\ user_baselines' = user_baselines
                     /\ OfAction(returned', "ADJUST_PLAN") = <<>> ]_vars

\* C35: a make_decisions call for a user whose baseline vo2_max is seeded
\* never lowers it: the baseline is left as it is or becomes the reading of
\* the call, and that only when the reading is above 1.05 times the baseline;
\* a call that returns ADJUST_PLAN leaves the baselines unchanged, so that
\* the same reading meets the decline condition again at the next call.
C35_BaselineNeverLowered ==
    [][ (calls' = calls + 1 /\ ~IsNone(BaselineVo2(user_baselines, last_call'.v.user_id))) =>
          \E data \in {last_call'.v.data}, user_id \in {last_call'.v.user_id} :
          \E before \in {BaselineVo2(user_baselines, user_id)},
             after \in {BaselineVo2(user_baselines', user_id)} :
             /\ ~IsNone(after)
             /\ after.v >= before.v
             /\ after # before
                  => /\ after = data.vo2_max
                     /\ 100 * after.v > 105 * before.v
             /\ OfAction(returned', "ADJUST_PLAN") # <<>>
                  => /\ user_baselines' = user_baselines
                     /\ ~IsNone(_handle_vo2_changes(user_baselines', data, user_id,
                                                     clock').decision) ]_vars

\* the same declined reading was answered with ADJUST_PLAN at two calls in a
\* row, the baseline staying at the seeded value
C35_Witness ==
    /\ calls = 3
    /\ Len(OfAction(HistoryOf(1), "ADJUST_PLAN")) = 2
    /\ Len(OfAction(returned, "ADJUST_PLAN")) = 1
    /\ BaselineVo2(user_baselines, 1) = Some(425)
    /\ last_call.v.data.vo2_max = Some(380)

C26_NutritionOnlyAfterWorkout ==
    [][ calls' = calls + 1 =>
          \E data \in {last_call'.v.data}, meals \in {OfAction(returned', "NUTRITION")} :
             /\ Len(meals) <= 1
             /\ meals # <<>>
                  => /\ data.calories_burned > 200 * 100
                     /\ data.activity \in {"moderate_exercise", "intense_exercise"}
                     /\ meals[1].data.protein = data.calories_burned \div (20 * 100)
                     /\ meals[1].data.carbs = data.calories_burned \div (10 * 100) ]_vars

\* a workout of 250.7 kcal: 12 g of protein and 25 g of carbohydrate
C26_Witness ==
    /\ ~IsNone(last_call)
    /\ last_call.v.data.calories_burned = 25070
    /\ Len(OfAction(returned, "NUTRITION")) = 1
    /\ OfAction(returned, "NUTRITION")[1].data.protein = 12
    /\ OfAction(returned, "NUTRITION")[1].data.carbs = 25

NothingToSuppress ==
    /\ calls' = calls + 1
    /\ ~RecentlyDecided(HistoryOf(last_call'.v.user_id), "RECOMMENDATION", clock')

\* C27: the candidate of the fatigue handler is a RECOMMENDATION of priority
\* HIGH with action rest_immediately when fatigue > 0.85, one of priority
\* NORMAL with action reduce_intensity when 0.70 < fatigue <= 0.85, and
\* there is none when fatigue <= 0.70; a missing fatigue_score counts as 0.
C27_FatigueCandidate ==
    [][ NothingToSuppress =>
          \E fatigue \in {DictGet(last_call'.v.data, "fatigue_score", 0)},
             tired \in {Carrying(returned', "fatigue_score")} :
             /\ fatigue > 850
                  => /\ Len(tired) = 1
                     /\ tired[1].action = "RECOMMENDATION"
                     /\ tired[1].priority = "HIGH"
                     /\ tired[1].data.recommended_action = "rest_immediately"
             /\ (fatigue > 700 /\ fatigue <= 850)
                  => /\ Len(tired) = 1
                     /\ tired[1].action = "RECOMMENDATION"
                     /\ tired[1].priority = "NORMAL"
                     /\ tired[1].data.recommended_action = "reduce_intensity"
             /\ fatigue <= 700 => tired = <<>> ]_vars

\* a fatigue of exactly 0.85 gave the NORMAL recommendation
C27_Witness ==
    /\ ~IsNone(last_call)
    /\ DictGet(last_call.v.data, "fatigue_score", 0) = 850
    /\ Len(Carrying(returned, "fatigue_score")) = 1
    /\ Carrying(returned, "fatigue_score")[1].priority = "NORMAL"

\* C28: the stress handler produces a candidate only when the HRV is present
\* and the activity is moderate or intense exercise: a RECOMMENDATION of
\* priority HIGH when stress_index > 80, of priority LOW when
\* 60 < stress_index <= 80, none when stress_index <= 60; with any other
\* activity there is none whatever the stress index.
C28_StressCandidate ==
    [][ NothingToSuppress =>
          \E data \in {last_call'.v.data}, tense \in {Carrying(returned', "stress_index")} :
             IF ~IsNone(data.hrv)
                /\ data.activity \in {"moderate_exercise", "intense_exercise"}
             THEN /\ data.hrv.stress_index > 80
                       => /\ Len(tense) = 1
                          /\ tense[1].action = "RECOMMENDATION"
                          /\ tense[1].priority = "HIGH"
                  /\ (data.hrv.stress_index > 60 /\ data.hrv.stress_index <= 80)
                       => /\ Len(tense) = 1
                          /\ tense[1].action = "RECOMMENDATION"
                          /\ tense[1].priority = "LOW"
                  /\ data.hrv.stress_index <= 60 => tense = <<>>
             ELSE tense = <<>> ]_vars

\* a stress index of exactly 80 during exercise gave the LOW recommendation
C28_Witness ==
    /\ ~IsNone(last_call)
    /\ ~IsNone(last_call.v.data.hrv)
    /\ last_call.v.data.hrv.stress_index = 80
    /\ Len(Carrying(returned, "stress_index")) = 1
    /\ Carrying(returned, "stress_index")[1].priority = "LOW"

\* C30: alerts are deduplicated: any two ALERT decisions returned to a user
\* have timestamps at least 60 s apart, and no batch holds more than one
\* ALERT.  (The history holds every returned decision younger than 120 s.)
C30_AlertsSixtySecondsApart ==
    /\ Len(OfAction(returned, "ALERT")) <= 1
    /\ \A u \in DOMAIN recent_decisions :
         \E alerts \in {OfAction(recent_decisions[u], "ALERT")} :
            \A i, j \in 1..Len(alerts) :
               i < j => alerts[j].timestamp - alerts[i].timestamp >= 60

\* C16: the samples of one user are handled one after the other: while the
\* handler of one connection is between the arrival of a sample and the end
\* of its make_decisions call, no other connection of the same user is, even
\* when both share the engine and the coach.
C16_SamplesSerialized ==
    \A c1, c2 \in DOMAIN sockets :
        (c1 # c2 /\ SocketUser[c1] = SocketUser[c2]) => ~(MidSample(c1) /\ MidSample(c2))

\* two connections of user 1 have each had a sample handled by the shared
\* engine and coach
C16_Witness ==
    /\ {1, 2} \subseteq DOMAIN sockets
    /\ sockets[1].raw # NoReading
    /\ sockets[2].raw # NoReading
    /\ sockets[1].stage = "waiting"
    /\ sockets[2].stage = "waiting"
    /\ Len(engine.hr_buffer) = 2
    /\ calls = 2

\* the channel calls execute_decisions owes a batch, in order
RECURSIVE Owed(_, _, _, _)
Owed(decisions, i, mqtt, callback) ==
    IF i > Len(decisions) THEN <<>>
    ELSE (IF "mqtt" \in decisions[i].notification_channels /\ mqtt
          THEN <<[decision |-> i, channel |-> "mqtt"]>> ELSE <<>>)
         \o (IF "websocket" \in decisions[i].notification_channels /\ callback
             THEN <<[decision |-> i, channel |-> "websocket"]>> ELSE <<>>)
         \o Owed(decisions, i + 1, mqtt, callback)

\* C14: a channel failure during execute_decisions (a publish that fails or
\* raises, a websocket callback that raises) does not reach the caller and
\* does not stop the other decisions and channels of the batch from being
\* dispatched; the history still ends with the batch make_decisions returned.
C14_ChannelFailureSwallowed ==
    exec_result # NoExec =>
        /\ exec_result.outcome = "returned"
        /\ [i \in 1..Len(dispatched) |->
              [decision |-> dispatched[i].decision, channel |-> dispatched[i].channel]]
           = Owed(returned, 1, exec_result.mqtt, exec_result.callback)
        /\ LET h == HistoryOf(last_call.v.user_id)
           IN SubSeq(h, Len(h) - Len(returned) + 1, Len(h)) = returned

-----------------------------------------------------------------------------
(* Properties of the engine *)

IsRecord == result.kind = "ProcessedHealthData"
Ticks == Len(pushed)
LastSample == pushed[Len(pushed)]

\* the last k entries of seq, all of it when it is shorter
LastK(seq, k) == SubSeq(seq, Max2(1, Len(seq) - k + 1), Len(seq))
PushedHr == [i \in 1..Len(pushed) |-> pushed[i].hr]
PushedSteps == [i \in 1..Len(pushed) |-> pushed[i].steps]
PushedAccel == [i \in 1..Len(pushed) |-> <<pushed[i].ax, pushed[i].ay, pushed[i].az>>]

\* C3: after n calls each window holds the most recent min(n, capacity)
\* pushed values in arrival order: capacity 300 for the heart rates, 60 for
\* the steps and the accelerations.
C3_WindowsHoldMostRecent ==
    /\ engine.hr_buffer = LastK(PushedHr, 300)
    /\ engine.step_buffer = LastK(PushedSteps, 60)
    /\ engine.accel_buffer = LastK(PushedAccel, 60)
    /\ Len(engine.hr_buffer) <= 300
    /\ Len(engine.step_buffer) <= 60
    /\ Len(engine.accel_buffer) <= 60

\* the heart-rate window is full and has evicted a value that differs from
\* the one that is now its oldest
C3_Witness ==
    /\ Ticks > 300
    /\ Len(engine.hr_buffer) = 300
    /\ pushed[Ticks - 300].hr # engine.hr_buffer[1]
    /\ pushed[Ticks - 60].steps # engine.step_buffer[1]

\* C4: the hrv field of a returned record is null exactly when fewer than
\* 60 heart rates are buffered (ticks 1..59 of a fresh engine), and a
\* concrete value from tick 60 on.
C4_HrvNullIffFewerThan60 ==
    IsRecord => (IsNone(result.hrv) <=> Len(engine.hr_buffer) < 60)
                /\ (IsNone(result.hrv) <=> Ticks < 60)

C4_Witness == IsRecord /\ Ticks = 60 /\ result.hrv.kind = "HRVFeatures"

SpO2Normal(spo2) == IsNone(spo2) \/ spo2.v >= 92

\* C5: a sample with hr > 190 and spo2 normal (absent or >= 92) is always
\* assessed CRITICAL.
C5_Above190IsCritical ==
    (IsRecord /\ LastSample.hr > 190 /\ SpO2Normal(LastSample.spo2))
        => result.health_risk_level = "CRITICAL"

\* C6: a fresh engine fed 205 BPM for up to 5 ticks returns on every tick
\* anomaly_detected = true and health_risk_level = CRITICAL.
C6_Fixed205IsCriticalAnomaly ==
    (IsRecord /\ Ticks <= 5 /\ \A i \in 1..Ticks : pushed[i].hr = 205)
        => (result.anomaly_detected /\ result.health_risk_level = "CRITICAL")

\* C7: process_realtime never raises, for any integer heart rate, buffer
\* fill level and configured baseline.
C7_NeverRaises == Ticks > 0 => IsRecord

\* C8: hr_zone.hr_percent of every returned record is >= 0.
C8_HrPercentNonNegative == IsRecord => result.hr_zone.hr_percent >= 0

\* C9: fatigue_score of every returned record lies in [0, 1] (thousandths).
C9_FatigueInUnitInterval ==
    IsRecord => (result.fatigue_score >= 0 /\ result.fatigue_score <= 1000)

\* a resting tick at or below the resting heart rate without HRV: the sum
\* is -0.05 before the clamp
C9_Witness ==
    /\ IsRecord
    /\ result.activity = "resting"
    /\ LastSample.hr <= engine.baseline.resting_hr
    /\ IsNone(result.hrv)
    /\ result.fatigue_score = 0

\* the adjustments of the stress index, from its table; welch is the lf_hf
\* argument of _calculate_stress_index at the last tick
SdnnTerm(sdnn) ==
    IF sdnn.k # "num" THEN 0
    ELSE IF sdnn.v < 30 THEN 25
    ELSE IF sdnn.v < 50 THEN 15
    ELSE IF sdnn.v > 100 THEN -15
    ELSE IF sdnn.v > 70 THEN -10
    ELSE 0
RmssdTerm(rmssd) ==
    IF rmssd.k = "nan" THEN 0
    ELSE IF rmssd.k = "inf" THEN -10
    ELSE IF rmssd.v < 20 THEN 20
    ELSE IF rmssd.v < 30 THEN 10
    ELSE IF rmssd.v > 60 THEN -10
    ELSE 0
LfHfTerm(lf) ==
    IF IsNone(lf) THEN 0
    ELSE IF lf.v > 300 THEN 15
    ELSE IF lf.v > 200 THEN 10
    ELSE IF lf.v < 100 THEN -5
    ELSE 0

\* C10: the stress index is in [0, 100]: 50 plus the SDNN, RMSSD and (when
\* an LF/HF ratio is present) LF/HF adjustments, clamped; without a ratio
\* the LF/HF term is omitted.
C10_StressIndexClamped ==
    (IsRecord /\ ~IsNone(result.hrv)) =>
        LET h == result.hrv
            raw == 50 + SdnnTerm(h.sdnn) + RmssdTerm(h.rmssd) + LfHfTerm(welch)
        IN /\ h.stress_index >= 0
           /\ h.stress_index <= 100
           /\ h.stress_index = Max2(0, Min2(100, raw))

\* the three adjustments add up to 110 and the clamp brings it to 100
C10_Witness ==
    /\ IsRecord
    /\ ~IsNone(result.hrv)
    /\ FLt(result.hrv.sdnn, 30)
    /\ FLt(result.hrv.rmssd, 20)
    /\ ~IsNone(welch)
    /\ welch.v > 300
    /\ result.hrv.stress_index = 100

-----------------------------------------------------------------------------
(* Properties of the engine's classifiers *)

\* the label of the first row of a table of <<condition, label>> rows whose
\* condition holds
FirstMatch(table) ==
    table[CHOOSE i \in 1..Len(table) :
            table[i][1] /\ \A j \in 1..(i - 1) : ~table[j][1]][2]

\* the decision table of the activity over hr, the step rate and the squared
\* magnitude of the acceleration (tenths of m/s2, squared)
ActivityTable(hr, step_rate, mag2) ==
    << <<mag2 < 15 * 15 /\ step_rate = 0 /\ hr < 60, "sleeping">>,
       <<mag2 < 20 * 20 /\ step_rate < 5, "resting">>,
       <<step_rate < 60 /\ hr < 100, "walking">>,
       <<hr < 120, "light_exercise">>,
       <<hr < 150, "moderate_exercise">>,
       <<hr >= 150, "intense_exercise">>,
       <<TRUE, "unknown">> >>

\* newest minus oldest of the step counts of the last 60 samples
WindowStepRate(window) ==
    IF Len(window) < 2 THEN 0 ELSE window[Len(window)] - window[1]

\* C19: the activity of a returned record is the label of the first matching
\* row of the decision table (sleeping, resting, walking, light, moderate,
\* intense exercise, unknown), with the step rate the newest minus the
\* oldest entry of the step window (0 with fewer than 2 entries) and the
\* magnitude the Euclidean norm of the acceleration.
C19_ActivityFollowsTable ==
    IsRecord =>
        result.activity =
            FirstMatch(ActivityTable(LastSample.hr,
                                     WindowStepRate(LastK(PushedSteps, 60)),
                                     LastSample.ax * LastSample.ax
                                       + LastSample.ay * LastSample.ay
                                       + LastSample.az * LastSample.az))

\* a sample with a heart rate below 100 is light exercise because the step
\* window spans 60 steps or more
C19_Witness ==
    /\ IsRecord
    /\ result.activity = "light_exercise"
    /\ LastSample.hr < 100
    /\ WindowStepRate(LastK(PushedSteps, 60)) >= 60

\* the waterfall of the risk level
RiskTable(hr, spo2, hrv, anomaly) ==
    << <<anomaly, "HIGH">>,
       <<hr > 190 \/ hr < 40 \/ (~IsNone(spo2) /\ spo2.v < 88), "CRITICAL">>,
       <<hr > 180 \/ hr < 45 \/ (~IsNone(spo2) /\ spo2.v < 92), "HIGH">>,
       <<(~IsNone(hrv) /\ hrv.stress_index > 70) \/ hr > 160, "MODERATE">>,
       <<TRUE, "LOW">> >>

\* C20: the risk level of a returned record is the label of the first
\* matching row of the waterfall: anomaly -> HIGH; hr > 190 or hr < 40 or
\* spo2 present and < 88 -> CRITICAL; hr > 180 or hr < 45 or spo2 present
\* and < 92 -> HIGH; HRV present with stress index > 70, or hr > 160 ->
\* MODERATE; else LOW.
C20_RiskFollowsWaterfall ==
    IsRecord =>
        result.health_risk_level =
            FirstMatch(RiskTable(LastSample.hr, LastSample.spo2, result.hrv,
                                 result.anomaly_detected))

\* an anomalous sample above 190 bpm is HIGH, not CRITICAL
C20_Witness ==
    /\ IsRecord
    /\ result.anomaly_detected
    /\ LastSample.hr > 190
    /\ result.health_risk_level = "HIGH"

\* heart rates on both sides of every threshold of the rules, zero and
\* negative ones included, and accelerations (tenths) around 1.5 and 2.0
ProbeHr == {-60, -1, 0, 59, 60, 99, 100, 119, 120, 149, 150, 151, 250}
ProbeAccel == {0, 14, 15, 19, 20, 98}
Labels ==
    {"sleeping", "resting", "walking", "light_exercise", "moderate_exercise",
     "intense_exercise"}

\* C33: _classify_activity never yields unknown.  With the step window the
\* engine holds after any sample, every integer heart rate and every
\* acceleration fall under one of the six rules; so no returned record has
\* the activity unknown.
C33_ActivityNeverUnknown ==
    /\ \A hr \in ProbeHr, az \in ProbeAccel :
          _classify_activity(engine, hr, 0, 0, 0, az) \in Labels
    /\ IsRecord => result.activity \in Labels

\* a record was returned for a sample with a heart rate of 0 or below, and
\* the step window holds a rate of 60 or more
C33_Witness ==
    /\ IsRecord
    /\ LastSample.hr <= 0
    /\ result.activity = "light_exercise"
    /\ StepRate(engine.step_buffer) >= 60

\* C32: a returned record is CRITICAL only for a sample that is not an
\* anomaly and whose heart rate is above 190 and at most 200; a heart rate
\* below 40, a heart rate above 200 and an spo2 below 88 are anomalies by
\* rule and are never rated CRITICAL.
C32_CriticalOnlyBetween190And200 ==
    IsRecord =>
        /\ result.health_risk_level = "CRITICAL" =>
              /\ ~result.anomaly_detected
              /\ LastSample.hr > 190
              /\ LastSample.hr <= 200
        /\ (\/ LastSample.hr < 40
            \/ LastSample.hr > 200
            \/ (~IsNone(LastSample.spo2) /\ LastSample.spo2.v < 88)) =>
              result.health_risk_level # "CRITICAL"

\* a sample of 195 bpm is rated CRITICAL
C32_Witness ==
    /\ IsRecord
    /\ result.health_risk_level = "CRITICAL"
    /\ LastSample.hr = 195

\* the activity of the last sample by the decision table, the step rate
\* taken over the last 60 samples
TickActivity ==
    FirstMatch(ActivityTable(LastSample.hr,
                             IF Len(pushed) < 2 THEN 0
                             ELSE LastSample.steps - pushed[Max2(1, Len(pushed) - 59)].steps,
                             LastSample.ax * LastSample.ax + LastSample.ay * LastSample.ay
                               + LastSample.az * LastSample.az))
Exercise == {"moderate_exercise", "intense_exercise"}

\* C29: the baseline vo2_max of the engine is changed only on a tick whose
\* activity is moderate or intense exercise, and only to a value strictly
\* between 20 and 80 (hundredths here), so it is always null or in that
\* range; on a tick with any other activity the baseline is unchanged and
\* the vo2_max of the returned record is the baseline value (to one
\* decimal), null if the baseline was never set.
C29_EngineVo2Baseline ==
    [][ Len(pushed') = Len(pushed) + 1 =>
          \E activity \in {TickActivity'},
             before \in {engine.baseline.vo2_max}, after \in {engine'.baseline.vo2_max} :
             /\ after # before => (activity \in Exercise /\ ~IsNone(after))
             /\ ~IsNone(after) => (2000 < after.v /\ after.v < 8000)
             /\ activity \notin Exercise
                   => /\ after = before
                      /\ result'.kind = "ProcessedHealthData"
                           => result'.vo2_max =
                                IF IsNone(before) THEN None ELSE Some(Round1(before.v)) ]_vars

\* after exercise set the baseline, a tick of another activity returns it
C29_Witness ==
    /\ IsRecord
    /\ result.activity \notin Exercise
    /\ ~IsNone(engine.baseline.vo2_max)
    /\ result.vo2_max = Some(Round1(engine.baseline.vo2_max.v))

\* a rule of the rule-based path fires for the last sample
RuleFires ==
    \/ LastSample.hr < 40 \/ LastSample.hr > 200
    \/ ~IsNone(LastSample.spo2) /\ LastSample.spo2.v < 90
    \/ ~IsNone(result.hrv) /\ result.hrv.stress_index > 85

\* C21: whenever hr < 40 or hr > 200, or spo2 is present and < 90, or the
\* HRV is present with a stress index above 85, the returned record has
\* anomaly_detected true, whether or not an outlier model exists, is fitted,
\* or predicts an inlier; and when no rule fires and no fitted model exists,
\* anomaly_detected is false.
C21_RulesTakePrecedence ==
    IsRecord =>
        /\ RuleFires => result.anomaly_detected
        /\ (~RuleFires /\ ~engine.anomaly_trained) => ~result.anomaly_detected

\* a fitted model exists, the heart rate of the sample is above 200 and the
\* record is flagged
C21_Witness ==
    /\ IsRecord
    /\ engine.anomaly_trained
    /\ LastSample.hr > 200
    /\ result.anomaly_detected

\* C22 as stated: the model is fitted on the tick at which the heart-rate
\* buffer reaches 100 samples.
C22_FittedWhenBufferReaches100 ==
    (SKLEARN_AVAILABLE /\ NUMPY_AVAILABLE /\ Len(engine.hr_buffer) >= 100)
        => engine.anomaly_trained

\* C22 amended: the model is fitted on the first tick with 100 or more
\* buffered heart rates at which no rule fires, and at most once:
\* anomaly_trained goes from false to true on such a tick only and never
\* back, the fit is on the newest 100 heart rates of the buffer and is never
\* replaced, and an unfitted model flags nothing.
C22_FittedOnceLazily ==
    [][ /\ engine.anomaly_trained
           => /\ engine'.anomaly_trained
              /\ engine'.training_data = engine.training_data
        /\ (~engine.anomaly_trained /\ engine'.anomaly_trained)
           => /\ SKLEARN_AVAILABLE /\ NUMPY_AVAILABLE
              /\ result'.kind = "ProcessedHealthData"
              /\ ~RuleFires'
              /\ Len(engine'.hr_buffer) >= 100
              /\ engine'.training_data = LastK(engine'.hr_buffer, 100)
        /\ ( /\ ~engine.anomaly_trained
             /\ result'.kind = "ProcessedHealthData"
             /\ SKLEARN_AVAILABLE /\ NUMPY_AVAILABLE
             /\ Len(engine'.hr_buffer) >= 100
             /\ ~RuleFires' )
           => engine'.anomaly_trained
        /\ (~engine'.anomaly_trained /\ result'.kind = "ProcessedHealthData" /\ ~RuleFires')
           => ~result'.anomaly_detected ]_vars

\* the fit was put off by a rule that fired at tick 100: the model is fitted
\* at tick 101 on the heart rates of ticks 2 to 101, which are not those of
\* ticks 1 to 100
C22_Witness ==
    /\ engine.anomaly_trained
    /\ Len(engine.hr_buffer) = 101
    /\ engine.training_data = LastK(engine.hr_buffer, 100)
    /\ engine.training_data # SubSeq(engine.hr_buffer, 1, 100)

-----------------------------------------------------------------------------
(* Properties of two engines *)

\* the fields of a record that are computed from the samples
Metrics(rec) ==
    [ heart_rate |-> rec.heart_rate, steps |-> rec.steps, activity |-> rec.activity,
      hrv |-> rec.hrv, anomaly_detected |-> rec.anomaly_detected,
      fatigue_score |-> rec.fatigue_score, vo2_max |-> rec.vo2_max,
      calories_burned |-> rec.calories_burned, hr_zone |-> rec.hr_zone,
      health_risk_level |-> rec.health_risk_level ]

-----------------------------------------------------------------------------
(* Properties of the scripted sequences *)

\* C12: in the resting scenario (120 ticks, heart rate in 65..85, the step
\* counter growing by 2 per tick) every record has activity resting or
\* walking, anomaly_detected = false and health_risk_level = LOW.
C12_RestingScenarioIsCalm ==
    (scenario.name = "rest" /\ Ticks > 0) =>
        /\ IsRecord
        /\ result.activity \in {"resting", "walking"}
        /\ result.anomaly_detected = FALSE
        /\ result.health_risk_level = "LOW"

\* C13: in the ramp scenario (heart rate rising from 70 to 160 in 60 ticks,
\* step rate 0) the fatigue score never decreases from one tick to the next
\* and the zone of the last tick is 4 or 5.
C13_RampFatigueNonDecreasing ==
    /\ [][ (scenario.name = "ramp" /\ Ticks > 0)
              => (result'.kind = "ProcessedHealthData"
                  /\ result'.fatigue_score >= result.fatigue_score) ]_vars
    /\ []( (scenario.name = "ramp" /\ Ticks = scenario.ticks)
              => (IsRecord /\ result.hr_zone.zone \in {4, 5}) )

\* the ramp has ended at 160 BPM with a fatigue above the one of its start
C13_Witness ==
    /\ scenario.name = "ramp"
    /\ Ticks = scenario.ticks
    /\ LastSample.hr = 160
    /\ pushed[1].hr = 70
    /\ IsRecord
    /\ ~IsNone(result.hrv)
    /\ result.fatigue_score > 400

-----------------------------------------------------------------------------
(* main.py: the in-flight lock *)

_INFLIGHT_TTL == 25

\* the dict without the key: pop(key, None)
DictPop(dict, key) == [k \in DOMAIN dict \ {key} |-> dict[k]]

\* lines 111-114: the entries whose expiry lies before now are removed
Unexpired(inflight, now) ==
    [k \in {x \in DOMAIN inflight : ~(inflight[x] < now)} |-> inflight[k]]

\* inflight_acquire: [inflight afterwards, status]
inflight_acquire(inflight, key, now) ==
    LET live == Unexpired(inflight, now)
    IN IF key \in DOMAIN live
       THEN [inflight |-> live, status |-> 409]
       ELSE [inflight |-> DictSet(live, key, now + _INFLIGHT_TTL * HalfSecondsPerSecond),
             status |-> 200]

\* the entry of the key is kept when it is not the caller's
inflight_release_own(inflight, key, expiry) ==
    IF key \in DOMAIN inflight /\ inflight[key] = expiry
    THEN DictPop(inflight, key) ELSE inflight

\* inflight_release: _inflight.pop(key, None)
inflight_release(inflight, key, expiry) == DictPop(inflight, key)

\* the cache key of each request: three the same, one another
RequestKey == <<"q1", "q1", "q1", "q2">>
\* how long a Gemini call or the pause between two requests may last, in
\* half seconds: 1 s, 26 s
InflightDelays == {2, 52}
MaxPauses == 3
Holding == {r \in DOMAIN requests : requests[r].stage = "holding"}

\* lines 787, 1564, 1698: a request reaches inflight_acquire; a 409 ends it
\* before the try block, without a release
AcquireInflight ==
    /\ \E r \in DOMAIN RequestKey \ DOMAIN requests :
       \E a \in {inflight_acquire(_inflight, RequestKey[r], clock)} :
         /\ _inflight' = a.inflight
         /\ requests' = DictSet(requests, r,
                                 [stage |-> IF a.status = 200 THEN "holding" ELSE "refused",
                                  key |-> RequestKey[r], since |-> clock])
    /\ UNCHANGED <<_hits, workers, served, waits,
                   _api_cooldown, generations, limited, active_connections>>
    /\ UNCHANGED coachVars
    /\ UNCHANGED engineVars

\* lines 797, 1572, 1709: the finally block of a request that holds the lock
ReleaseInflight ==
    /\ \E r \in Holding :
         /\ _inflight' = inflight_release(_inflight, requests[r].key,
                                           requests[r].since
                                             + _INFLIGHT_TTL * HalfSecondsPerSecond)
         /\ requests' = [requests EXCEPT ![r].stage = "released"]
    /\ UNCHANGED <<_hits, workers, served, waits,
                   _api_cooldown, generations, limited, active_connections>>
    /\ UNCHANGED coachVars
    /\ UNCHANGED engineVars

\* the Gemini call of the holders goes on, or no request arrives for a while
Pause ==
    /\ waits < MaxPauses
    /\ \E d \in InflightDelays : clock' = clock + d
    /\ waits' = waits + 1
    /\ UNCHANGED <<_hits, workers, served, _inflight, requests,
                   _api_cooldown, generations, limited, active_connections>>
    /\ UNCHANGED <<user_baselines, recent_decisions, returned, last_call, calls, waited,
                   dispatched, exec_result, sockets, loop>>
    /\ UNCHANGED engineVars

NextInflight == AcquireInflight \/ ReleaseInflight \/ Pause

SpecInflight == InitCoach /\ [][NextInflight]_vars

-----------------------------------------------------------------------------
(* main.py: gemini_generate_with_backoff and the cooldown of the models *)

_API_COOLDOWN_DURATION == 300
max_tries == 2

FALLBACK_CHAIN ==
    <<"gemini-3-flash-preview", "gemini-2.5-flash-lite", "gemini-2.5-flash",
      "gemma-3-27b-it">>

InSeq(x, seq) == \E i \in 1..Len(seq) : seq[i] = x

RECURSIVE ChainAfter(_, _, _)
\* lines 186-188: the models of the chain are appended in order, except the
\* requested one and those already in the list
ChainAfter(models, model, i) ==
    IF i > Len(FALLBACK_CHAIN) THEN models
    ELSE ChainAfter(IF FALLBACK_CHAIN[i] # model /\ ~InSeq(FALLBACK_CHAIN[i], models)
                    THEN Append(models, FALLBACK_CHAIN[i]) ELSE models,
                    model, i + 1)

\* lines 179-188: models_to_try
ModelsToTry(model, force_model) ==
    IF ~IsNone(force_model) THEN <<force_model.v>> ELSE ChainAfter(<<model>>, model, 1)

\* is_api_on_cooldown: _api_cooldown.get(model_name, 0) > now
is_api_on_cooldown(cooldown, model_name, now) == DictGet(cooldown, model_name, 0) > now

\* set_api_cooldown: _api_cooldown[model_name] = time.time() + duration
set_api_cooldown(cooldown, model_name, now) ==
    DictSet(cooldown, model_name, now + _API_COOLDOWN_DURATION * HalfSecondsPerSecond)

\* the whole list is taken, cooldown or not
AvailableModelsAll(cooldown, models, force_model, now) == models

\* lines 191-196: available_models
AvailableModels(cooldown, models, force_model, now) ==
    SelectSeq(models, LAMBDA m : ~IsNone(force_model) \/ ~is_api_on_cooldown(cooldown, m, now))

\* what an invocation can raise, by what str(e) contains: a rate-limit error
\* ("429" or "Resource has been exhausted"), a fatal one ("404", "400",
\* "Not Found", "Invalid Argument"), a 503, and any other
GeminiErrors == {"429", "404", "503", "timeout"}

\* a 503 is retried however many attempts were made
MayRetryAlways(error, attempt) == error = "503"

\* lines 228-232: a 503 is retried while attempts are left
MayRetry(error, attempt) == error = "503" /\ attempt < max_tries

\* a call that has just entered the loops, or has ended at line 198
Started(id_models, force_model, now) ==
    [ forced |-> ~IsNone(force_model), models |-> id_models, at |-> 1, attempt |-> 1,
      delay |-> 1 * HalfSecondsPerSecond, tried |-> <<>>, started |-> now,
      limited |-> limited,
      stage |-> IF id_models = <<>> THEN "raised" ELSE "running",
      status |-> IF id_models = <<>> THEN 503 ELSE 0 ]

\* the call goes on with the next model, or leaves the loops and raises
\* (lines 236-240)
NextModel(g) ==
    IF g.at < Len(g.models)
    THEN [g EXCEPT !.at = g.at + 1, !.attempt = 1, !.delay = 1 * HalfSecondsPerSecond]
    ELSE [g EXCEPT !.stage = "raised", !.status = IF g.forced THEN 503 ELSE 500]

\* lines 205-234: one pass of the inner loop, the invocation ending with
\* outcome ("ok" or an error): the call afterwards
AfterInvocation(g, outcome) ==
    LET t == [g EXCEPT !.tried = Append(g.tried, [model |-> g.models[g.at],
                                                   outcome |-> outcome])]
    IN IF outcome = "ok" THEN [t EXCEPT !.stage = "returned", !.status = 200]
       ELSE IF outcome = "429" THEN NextModel(t)
       ELSE IF outcome = "404" THEN NextModel(t)
       ELSE IF MayRetry(outcome, g.attempt)
       THEN [t EXCEPT !.attempt = g.attempt + 1,
                      !.delay = Min2(g.delay * 2, 5 * HalfSecondsPerSecond)]
       ELSE NextModel(t)

\* a call that has ended and whose record is not needed any more
Ended == [stage |-> "ended"]

Running == {id \in DOMAIN generations : generations[id].stage = "running"}
\* the model a running call is about to invoke
Current(id) == generations[id].models[generations[id].at]

\* the model every call site requests, and what the model parameter of the
\* endpoints can force
RequestedModel == "gemini-3-flash-preview"
ForceModels == {None, Some("gemma-3-27b-it")}
MaxGenerations == 2

\* a request reaches gemini_generate_with_backoff (lines 175-198).  The
\* endpoints that are plain functions run on worker threads, so that a call
\* can start while others are under way when overlap is set; the records of
\* the calls that have ended are kept only then.
StartGeneration(overlap, forces) ==
    /\ overlap \/ Running = {}
    /\ \E id \in 1..MaxGenerations, force_model \in forces :
         /\ id \notin DOMAIN generations
         /\ \A k \in 1..(id - 1) : k \in DOMAIN generations
         /\ LET g == Started(AvailableModels(_api_cooldown,
                                              ModelsToTry(RequestedModel, force_model),
                                              force_model, clock),
                              force_model, clock)
            IN generations' = IF overlap THEN DictSet(generations, id, g)
                               ELSE [k \in DOMAIN generations \cup {id} |->
                                       IF k = id THEN g ELSE Ended]
    /\ UNCHANGED <<_hits, workers, served, waits, _inflight, requests, _api_cooldown,
                   limited, active_connections>>
    /\ UNCHANGED coachVars
    /\ UNCHANGED engineVars

\* a running call invokes its current model (line 212) and handles the
\* outcome; before a retry it sleeps for `delay`
GenerateContent(errors) ==
    /\ \E id \in Running, outcome \in {"ok"} \cup errors :
       \E g \in {generations[id]} :
         /\ generations' = [generations EXCEPT ![id] = AfterInvocation(g, outcome)]
         /\ IF outcome = "429"
            THEN /\ _api_cooldown' = set_api_cooldown(_api_cooldown, Current(id), clock)
                 /\ limited' = DictSet(limited, Current(id), clock)
            ELSE UNCHANGED <<_api_cooldown, limited>>
         /\ clock' = IF outcome \notin {"ok", "429", "404"} /\ MayRetry(outcome, g.attempt)
                      THEN clock + g.delay ELSE clock
    /\ UNCHANGED <<_hits, workers, served, waits, _inflight, requests, active_connections>>
    /\ UNCHANGED <<user_baselines, recent_decisions, returned, last_call, calls, waited,
                   dispatched, exec_result, sockets, loop>>
    /\ UNCHANGED engineVars

\* the waits between requests, in half seconds: a second less than the
\* cooldown, then the remaining second
CooldownDelays == <<598, 2>>

\* no request arrives for a while
Idle ==
    /\ waits < Len(CooldownDelays)
    /\ clock' = clock + CooldownDelays[waits + 1]
    /\ waits' = waits + 1
    /\ UNCHANGED <<_hits, workers, served, _inflight, requests, _api_cooldown,
                   generations, limited, active_connections>>
    /\ UNCHANGED <<user_baselines, recent_decisions, returned, last_call, calls, waited,
                   dispatched, exec_result, sockets, loop>>
    /\ UNCHANGED engineVars

\* the calls one after the other, every kind of error
StartNext == StartGeneration(FALSE, ForceModels)
Invoke == GenerateContent(GeminiErrors)
NextGenerate == StartNext \/ Invoke

SpecGenerate == InitCoach /\ [][NextGenerate]_vars

\* calls that overlap; the models answer or fail with a rate-limit error
StartOverlapping == StartGeneration(TRUE, ForceModels)
InvokeLimited == GenerateContent({"429"})
NextCooldown == StartOverlapping \/ InvokeLimited \/ Idle

SpecCooldown == InitCoach /\ [][NextCooldown]_vars

-----------------------------------------------------------------------------
(* Properties of main.py *)

\* the calls of a key that rate_limit admitted
Admitted(key) == {e \in DOMAIN served : e.key = key /\ e.status = 200}
\* how many of them fall into the window that starts at time from
InWindow(key, from) ==
    Total(served, { e \in Admitted(key) :
                      /\ e.at >= from
                      /\ e.at < from + RATE_LIMITS(key[2]).window * HalfSecondsPerSecond })

\* C36: rate_limit admits at most max requests of an (ip, bucket) in any
\* window of `window` seconds (the window starting at an admitted request
\* and ending `window` seconds later, the end excluded): 3 for users, 5 for
\* analyze_food, 10 for chat.
C36_AtMostMaxPerWindow ==
    \A key \in Clients :
        \A e \in Admitted(key) : InWindow(key, e.at) <= RATE_LIMITS(key[2]).max

\* the requests that are between inflight_acquire and inflight_release and
\* whose inflight_acquire is less than 25 s old
FreshHolders ==
    {r \in Holding : clock - requests[r].since < _INFLIGHT_TTL * HalfSecondsPerSecond}

\* C37: of the requests that are between inflight_acquire and
\* inflight_release with an inflight_acquire less than 25 s old, no two have
\* the same key, and the lock of each is in place as it acquired it: no
\* inflight_acquire that was refused and no inflight_release of another
\* request has removed or changed it.
C37_OneHolderPerKey ==
    /\ \A r1, r2 \in FreshHolders :
         requests[r1].key = requests[r2].key => r1 = r2
    /\ \A r \in FreshHolders :
         /\ requests[r].key \in DOMAIN _inflight
         /\ _inflight[requests[r].key]
              = requests[r].since + _INFLIGHT_TTL * HalfSecondsPerSecond

\* the connections of a user whose handler is running, and the one of them
\* that connected last
Open(u) ==
    {c \in DOMAIN sockets : SocketUser[c] = u /\ sockets[c].stage \notin {"closed", "failed"}}
Connected(u) == {c \in DOMAIN sockets : SocketUser[c] = u}
Latest(u) == CHOOSE c \in Connected(u) : \A d \in Connected(u) : sockets[d].nth <= sockets[c].nth

\* C40: while the connection of a user that connected last is open, it is
\* the user's entry in active_connections: the disconnect of an older
\* connection of the same user neither removes nor changes the entry.
C40_LatestConnectionRegistered ==
    \A u \in TwoUsers :
        (Connected(u) # {} /\ Latest(u) \in Open(u)) =>
            (u \in DOMAIN active_connections /\ active_connections[u] = Latest(u))

\* the calls whose record is kept
Calls == {id \in DOMAIN generations : generations[id].stage # "ended"}
\* the order in which a call without force_model goes through the models
TryOrder ==
    <<"gemini-3-flash-preview", "gemini-2.5-flash-lite", "gemini-2.5-flash",
      "gemma-3-27b-it">>
Range(seq) == {seq[i] : i \in 1..Len(seq)}
Pos(m) == CHOOSE i \in 1..Len(TryOrder) : TryOrder[i] = m
Invocations(g, m) == Cardinality({i \in 1..Len(g.tried) : g.tried[i].model = m})

\* C39 as stated: every call tries the requested model first and then the
\* fallback chain: the first invocation of a call is of the requested model,
\* and a call that raises has invoked the requested model and every model
\* of the chain.
C39_RequestedFirstThenChain ==
    \A id \in Calls :
       \E g \in {generations[id]} :
          /\ g.tried # <<>> => g.tried[1].model = RequestedModel
          /\ g.stage = "raised" => \A m \in Range(TryOrder) : Invocations(g, m) >= 1

\* C39: a call of gemini_generate_with_backoff ends after at most max_tries
\* invocations of each of its candidate models, which are the forced model
\* alone when force_model is given, and otherwise the requested model and
\* then the fallback chain, without those on cooldown.  It goes through the
\* candidates in that order, never back to an earlier one, and starts with
\* the requested model when no model is on cooldown; it invokes a model
\* again only right after that model raised a 503 error, and after any
\* other error goes to the next model; it returns at the first successful
\* invocation, and when no invocation succeeds it raises HTTP 500 or 503.
C39_BoundedOrderedAttempts ==
    \A id \in Calls :
       \E g \in {generations[id]} :
          /\ \A i \in 1..Len(g.tried) :
                /\ InSeq(g.tried[i].model, g.models)
                /\ Invocations(g, g.tried[i].model) <= max_tries
          /\ \A i, j \in 1..Len(g.tried) :
                i < j => IF g.forced THEN g.tried[i].model = g.tried[j].model
                         ELSE Pos(g.tried[i].model) <= Pos(g.tried[j].model)
          /\ (~g.forced /\ g.tried # <<>> /\ g.models = TryOrder)
                => g.tried[1].model = RequestedModel
          /\ \A i \in 1..(Len(g.tried) - 1) :
                /\ g.tried[i].outcome # "ok"
                /\ g.tried[i + 1].model = g.tried[i].model => g.tried[i].outcome = "503"
                /\ g.tried[i].outcome # "503" => g.tried[i + 1].model # g.tried[i].model
          /\ g.stage = "returned"
                <=> (g.tried # <<>> /\ g.tried[Len(g.tried)].outcome = "ok")
          /\ g.stage = "returned" => g.status = 200
          /\ g.stage = "raised" => g.status \in {500, 503}
          /\ g.stage = "running" => Len(g.tried) < max_tries * Len(g.models)

\* a call went through the four models, each invoked twice with a 503
\* error, and raised HTTP 500
C39_Witness ==
    \E id \in Calls :
       /\ generations[id].stage = "raised"
       /\ generations[id].status = 500
       /\ Len(generations[id].tried) = max_tries * Len(FALLBACK_CHAIN)
       /\ \A i \in 1..Len(generations[id].tried) : generations[id].tried[i].outcome = "503"

\* the model was limited less than 300 s before time now, by what the call
\* record g saw when it started
LimitedAt(g, m, now) ==
    m \in DOMAIN g.limited /\ now < g.limited[m] + _API_COOLDOWN_DURATION * HalfSecondsPerSecond

\* after a rate-limit error the call goes to the next model; a call whose
\* candidates are all on cooldown raises HTTP 503 without an invocation
MovesOnAndGivesUp(g) ==
    /\ \A i \in 1..(Len(g.tried) - 1) :
          g.tried[i].outcome = "429" => g.tried[i + 1].model # g.tried[i].model
    /\ (~g.forced /\ \A m \in Range(TryOrder) : LimitedAt(g, m, g.started))
          => (g.stage = "raised" /\ g.status = 503 /\ g.tried = <<>>)

====
